---- MODULE Spec2Model ----
(***************************************************************************)
(* Legend handling of the YOLO test application (src/yolo_test_app.py):    *)
(* the class/color legend parser, the per-detection color resolution of    *)
(* process_image_with_yolo and the pydantic legend validator.              *)
(*                                                                         *)
(* A text is a sequence of one-character strings, so that strip, split,    *)
(* lower and re.sub are computed on characters as Python computes them.    *)
(***************************************************************************)
EXTENDS Integers, Sequences, FiniteSets, TLC

VARIABLES project_class_names, project_color_config, YOLO_AVAILABLE,
          op, parsed, validation, boxes, detection_data,
          image, processed_image, process_error,
          upload, image_validation,
          projects, images, model_files, project_seq, image_seq, now,
          page, trigger, selected_project_name, uploaded_files,
          selected_images_for_delete, bulk_confirm_shown, session_state,
          projects_listed, images_listed, create_project_form, created_project_id,
          in_progress, to_create

vars == <<project_class_names, project_color_config, YOLO_AVAILABLE,
          op, parsed, validation, boxes, detection_data,
          image, processed_image, process_error,
          upload, image_validation,
          projects, images, model_files, project_seq, image_seq, now,
          page, trigger, selected_project_name, uploaded_files,
          selected_images_for_delete, bulk_confirm_shown, session_state,
          projects_listed, images_listed, create_project_form, created_project_id,
          in_progress, to_create>>

\* the run outputs of the legend and image pipelines
pipeline_vars == <<project_class_names, project_color_config, YOLO_AVAILABLE,
                   op, parsed, validation, boxes, detection_data,
                   image, processed_image, process_error, upload, image_validation>>

\* the database tables, the models directory and the clock
store_vars == <<projects, images, model_files, project_seq, image_seq, now>>

\* the browser session: page, widget values, st.session_state, the rows on screen
session_vars == <<page, trigger, selected_project_name, uploaded_files,
                  selected_images_for_delete, bulk_confirm_shown, session_state,
                  projects_listed, images_listed, create_project_form, created_project_id>>

\* concurrent sessions: the handler each session is in the middle of, and the
\* project forms their users have not submitted yet
ops_vars == <<in_progress, to_create>>

----------------------------------------------------------------------------
(* Bounds of the model.                                                    *)

\* lines drawn from LinePool per generated legend text
MaxLines == 2
\* raw detections returned by one inference call
MaxDets == 2
\* largest class id the inference call reports (legend pipeline)
MaxClassId == 2
\* largest class id / detections per call in the palette specification
MaxPaletteId == 18
MaxPaletteDets == 1

----------------------------------------------------------------------------
(* Python str/list primitives on texts.                                    *)

Min(S) == CHOOSE x \in S : \A y \in S : x <= y
Max(S) == CHOOSE x \in S : \A y \in S : x >= y

\* Python's None, kept distinct from every text (texts hold single characters)
None == <<"None">>

LowerSeq == <<"a","b","c","d","e","f","g","h","i","j","k","l","m",
              "n","o","p","q","r","s","t","u","v","w","x","y","z">>
UpperSeq == <<"A","B","C","D","E","F","G","H","I","J","K","L","M",
              "N","O","P","Q","R","S","T","U","V","W","X","Y","Z">>
DigitSeq == <<"0","1","2","3","4","5","6","7","8","9">>

Range(f) == {f[i] : i \in DOMAIN f}

\* characters removed by str.strip()
IsSpace(c) == c \in {" ", "\t", "\n", "\r"}

\* the regular expression class \w
IsWord(c) == c \in Range(LowerSeq) \cup Range(UpperSeq) \cup Range(DigitSeq) \cup {"_"}

\* str.lower() on one character
ToLower(c) ==
    IF c \in Range(UpperSeq)
    THEN LowerSeq[CHOOSE i \in DOMAIN UpperSeq : UpperSeq[i] = c]
    ELSE c

\* str.lower()
lower(s) == [i \in 1..Len(s) |-> ToLower(s[i])]

\* str.strip(): drop leading and trailing whitespace
strip(s) ==
    LET keep == {i \in 1..Len(s) : ~IsSpace(s[i])}
    IN  IF keep = {} THEN <<>> ELSE SubSeq(s, Min(keep), Max(keep))

\* str.startswith(c) for a one-character prefix
startswith(s, c) == Len(s) >= 1 /\ s[1] = c

\* c in s
contains(s, c) == \E i \in 1..Len(s) : s[i] = c

\* str.split(sep): every separator cuts
RECURSIVE split(_, _)
split(s, sep) ==
    LET at == {i \in 1..Len(s) : s[i] = sep}
    IN  IF at = {} THEN <<s>>
        ELSE <<SubSeq(s, 1, Min(at) - 1)>> \o split(SubSeq(s, Min(at) + 1, Len(s)), sep)

\* str.split(sep, 1): only the first separator cuts
split_once(s, sep) ==
    LET at == {i \in 1..Len(s) : s[i] = sep}
    IN  IF at = {} THEN <<s>>
        ELSE <<SubSeq(s, 1, Min(at) - 1), SubSeq(s, Min(at) + 1, Len(s))>>

\* str(n) for n >= 0
RECURSIVE str(_)
str(n) == IF n < 10 THEN <<DigitSeq[n + 1]>> ELSE str(n \div 10) \o <<DigitSeq[(n % 10) + 1]>>

\* dict: the empty dict and d[k] = v
EmptyMap == [k \in {} |-> <<>>]
Put(d, k, v) == [x \in (DOMAIN d) \cup {k} |-> IF x = k THEN v ELSE d[x]]
\* dict.update(other)
Update(d, other) ==
    [x \in (DOMAIN d) \cup (DOMAIN other) |-> IF x \in DOMAIN other THEN other[x] ELSE d[x]]

----------------------------------------------------------------------------
(* Palette, legend parser, legacy color parser.                            *)

get_default_colors ==
    << <<"r","e","d">>, <<"b","l","u","e">>, <<"g","r","e","e","n">>, <<"y","e","l","l","o","w">>, <<"p","u","r","p","l","e">>, <<"o","r","a","n","g","e">>,
       <<"c","y","a","n">>, <<"m","a","g","e","n","t","a">>, <<"l","i","m","e">>, <<"p","i","n","k">>, <<"b","r","o","w","n">>, <<"g","r","a","y">>,
       <<"n","a","v","y">>, <<"o","l","i","v","e">>, <<"t","e","a","l">>, <<"m","a","r","o","o","n">>, <<"f","u","c","h","s","i","a">>, <<"a","q","u","a">> >>

\* mutant: the 0-based index is taken for a 1-based one
default_color_at_shifted(i) == get_default_colors[((i + 1) % Len(get_default_colors)) + 1]

\* default_colors[i % len(default_colors)] for a 0-based i
default_color_at(i) == get_default_colors[(i % Len(get_default_colors)) + 1]

\* mutant: the comment test is dropped
is_entry_line_without_comment_test(line) == line # <<>>

\* "if line and not line.startswith('#')" on the stripped line
is_entry_line(line) == line # <<>> /\ ~startswith(line, "#")

\* the loop of parse_unified_class_config over lines[j..]; enumerate counts
\* from 0, so the j-th line has index j - 1
RECURSIVE parse_unified_lines(_, _, _, _)
parse_unified_lines(lines, j, class_names, color_map) ==
    IF j > Len(lines)
    THEN [class_names |-> class_names, color_map |-> color_map]
    ELSE LET line == strip(lines[j])
         IN  IF is_entry_line(line)
             THEN IF contains(line, ":")
                  THEN LET parts == split_once(line, ":")
                           class_name == strip(parts[1])
                           color == strip(parts[2])
                       IN  parse_unified_lines(lines, j + 1,
                               Append(class_names, class_name),
                               Put(color_map, class_name, color))
                  ELSE parse_unified_lines(lines, j + 1,
                           Append(class_names, line),
                           Put(color_map, line, default_color_at(j - 1)))
             ELSE parse_unified_lines(lines, j + 1, class_names, color_map)

parse_unified_class_config(content) ==
    IF content = <<>>
    THEN [class_names |-> <<>>, color_map |-> EmptyMap]
    ELSE parse_unified_lines(split(strip(content), "\n"), 1, <<>>, EmptyMap)

\* the loop of parse_color_config over lines[j..]
RECURSIVE parse_color_lines(_, _, _)
parse_color_lines(lines, j, color_map) ==
    IF j > Len(lines) THEN color_map
    ELSE LET line == strip(lines[j])
             parts == split(line, ":")
         IN  IF is_entry_line(line) /\ Len(parts) >= 2
             THEN parse_color_lines(lines, j + 1,
                      Put(color_map, strip(parts[1]), strip(parts[2])))
             ELSE parse_color_lines(lines, j + 1, color_map)

parse_color_config(color_config_content) ==
    IF color_config_content = <<>> THEN EmptyMap
    ELSE parse_color_lines(split(strip(color_config_content), "\n"), 1, EmptyMap)

----------------------------------------------------------------------------
(* process_image_with_yolo: class name and color of each raw detection.    *)
(* A raw box is [cls, conf, xyxy]: conf in hundredths, xyxy in tenths of a *)
(* pixel.                                                                  *)

\* int(x) on a coordinate given in tenths: truncation toward zero
int(t) == IF t >= 0 THEN t \div 10 ELSE -((-t) \div 10)

\* the color map the detection loop reads
build_color_map(class_names, color_config_content) ==
    LET p == parse_unified_class_config(class_names)
        with_old ==
            IF DOMAIN p.color_map = {} /\ color_config_content # <<>>
            THEN Update(p.color_map, parse_color_config(color_config_content))
            ELSE p.color_map
        names == p.class_names
    IN  IF DOMAIN with_old = {}
        THEN [n \in Range(names) |->
                 default_color_at(Max({i \in 1..Len(names) : names[i] = n}) - 1)]
        ELSE with_old

\* class_names_list[class_id] if class_id < len(class_names_list) else f"Class {class_id}"
class_name_of(class_names_list, class_id) ==
    IF class_id < Len(class_names_list)
    THEN class_names_list[class_id + 1]
    ELSE <<"C","l","a","s","s"," ">> \o str(class_id)

\* the color of one detection
color_of(color_map, class_name, class_id) ==
    IF class_name \in DOMAIN color_map
    THEN color_map[class_name]
    ELSE default_color_at(class_id)

\* detection_data with the detection loop walking the boxes last to first
process_image_with_yolo_reversed(raw, class_names, color_config_content, available, raises) ==
    IF ~available \/ raises THEN <<>>
    ELSE LET class_names_list == parse_unified_class_config(class_names).class_names
             color_map == build_color_map(class_names, color_config_content)
         IN  [i \in 1..Len(raw) |->
                LET class_id == raw[Len(raw) + 1 - i].cls
                    class_name == class_name_of(class_names_list, class_id)
                IN  [class_name |-> class_name,
                     confidence |-> raw[Len(raw) + 1 - i].conf,
                     bbox       |-> [c \in 1..4 |-> int(raw[Len(raw) + 1 - i].xyxy[c])],
                     color      |-> color_of(color_map, class_name, class_id)]]

\* detection_data for the raw boxes of one inference call; raises: the model
\* load, the inference call or the drawing raised
process_image_with_yolo(raw, class_names, color_config_content, available, raises) ==
    IF ~available \/ raises THEN <<>>
    ELSE LET class_names_list == parse_unified_class_config(class_names).class_names
             color_map == build_color_map(class_names, color_config_content)
         IN  [i \in 1..Len(raw) |->
                LET class_id == raw[i].cls
                    class_name == class_name_of(class_names_list, class_id)
                IN  [class_name |-> class_name,
                     confidence |-> raw[i].conf,
                     bbox       |-> [c \in 1..4 |-> int(raw[i].xyxy[c])],
                     color      |-> color_of(color_map, class_name, class_id)]]

\* f"{confidence:.2f}" of a confidence given in hundredths
format_confidence(conf) ==
    str(conf \div 100) \o <<".", DigitSeq[((conf \div 10) % 10) + 1], DigitSeq[(conf % 10) + 1]>>

(* An image is [pixels, drawn]: the decoded pixels and the ImageDraw calls  *)
(* made on it since, in call order. Two images are pixel-identical when    *)
(* they agree on both.                                                     *)

\* the three draw calls of one detection: box outline, label background, label text
draw_detection(d) ==
    LET label == d.class_name \o <<":", " ">> \o format_confidence(d.confidence)
    IN  << [call |-> "rectangle", at |-> d.bbox, color |-> d.color, text |-> <<>>],
           [call |-> "rectangle", at |-> <<d.bbox[1], d.bbox[2]>>, color |-> d.color, text |-> <<>>],
           [call |-> "text", at |-> <<d.bbox[1] + 5, d.bbox[2]>>,
            color |-> <<"w","h","i","t","e">>, text |-> label] >>

\* the draw calls of the detection loop that also frames the whole picture first
draw_detections_framed(detection_data_list) ==
    LET RECURSIVE calls(_)
        calls(i) == IF i > Len(detection_data_list) THEN <<>>
                    ELSE draw_detection(detection_data_list[i]) \o calls(i + 1)
    IN  <<[call |-> "rectangle", at |-> <<0, 0>>, color |-> <<"r","e","d">>, text |-> <<>>]>>
        \o calls(1)

\* the draw calls of the detection loop, in detection order
draw_detections(detection_data_list) ==
    LET RECURSIVE calls(_)
        calls(i) == IF i > Len(detection_data_list) THEN <<>>
                    ELSE draw_detection(detection_data_list[i]) \o calls(i + 1)
    IN  calls(1)

\* image.copy()
copy(img) == [pixels |-> img.pixels, drawn |-> img.drawn]

(* PIL images are objects: objects is the sequence of the images alive in  *)
(* one call, a reference is an index into it, and ImageDraw changes the    *)
(* object it was created on. Object 1 is the image the caller passed in.   *)

\* processed_image = image: a second name for the object, no new object
image_alias(objects, ref) == [objects |-> objects, ref |-> ref]

\* processed_image = image.copy(): a new object with the contents of the old one
image_copy(objects, ref) ==
    [objects |-> Append(objects, copy(objects[ref])), ref |-> Len(objects) + 1]

\* the objects after process_image_with_yolo(image, ...) and the reference it
\* returns as processed_image: the input itself on both early returns, the
\* annotated copy otherwise
process_image_objects(img, raw, class_names, color_config_content, available, raises) ==
    IF ~available \/ raises THEN [objects |-> <<img>>, ref |-> 1]
    ELSE LET processed == image_copy(<<img>>, 1)
         IN  [processed EXCEPT !.objects[processed.ref].drawn = @ \o
                draw_detections(process_image_with_yolo(raw, class_names,
                                    color_config_content, available, raises))]

\* the two images the caller holds once process_image_with_yolo has returned:
\* its own image object and the image returned next to detection_data
images_of(after) ==
    [original |-> after.objects[1], annotated |-> after.objects[after.ref]]

\* the image process_image_with_yolo returns next to detection_data
processed_image_of(img, raw, class_names, color_config_content, available, raises) ==
    images_of(process_image_objects(img, raw, class_names, color_config_content,
                                    available, raises)).annotated

\* the caller's image object once process_image_with_yolo has returned
image_after(img, raw, class_names, color_config_content, available, raises) ==
    images_of(process_image_objects(img, raw, class_names, color_config_content,
                                    available, raises)).original

\* the st.error text of process_image_with_yolo, "" when it shows none
process_error_of(available, raises) ==
    IF ~available THEN "YOLO is not available"
    ELSE IF raises THEN "Error processing image"
    ELSE ""

----------------------------------------------------------------------------
(* Pydantic models of the legend and validate_class_color_file.            *)
(* An error is [loc, type, msg, arg, names]: arg is the offending text,    *)
(* names the set of duplicated class names.                                *)

MaxClassNameLength == 100
MaxColorLength == 20
MaxItems == 1000

Error(loc, type, msg, arg, names) ==
    [loc |-> loc, type |-> type, msg |-> msg, arg |-> arg, names |-> names]

valid_colors ==
    { <<"r","e","d">>, <<"b","l","u","e">>, <<"g","r","e","e","n">>, <<"y","e","l","l","o","w">>, <<"p","u","r","p","l","e">>, <<"o","r","a","n","g","e">>, <<"c","y","a","n">>,
      <<"m","a","g","e","n","t","a">>, <<"l","i","m","e">>, <<"p","i","n","k">>, <<"b","r","o","w","n">>, <<"g","r","a","y">>, <<"n","a","v","y">>, <<"o","l","i","v","e">>,
      <<"t","e","a","l">>, <<"m","a","r","o","o","n">>, <<"f","u","c","h","s","i","a">>, <<"a","q","u","a">> }

\* re.sub(r'[^\w\s-]', '', v)
remove_special(v) == SelectSeq(v, LAMBDA c : IsWord(c) \/ IsSpace(c) \/ c = "-")

\* mutant: the special characters are kept
validate_class_name_keeps_special(v) ==
    IF strip(v) = <<>>
    THEN [errors |-> <<Error("class_name", "value_error", "Class name cannot be empty", <<>>, {})>>,
          value |-> v]
    ELSE [errors |-> <<>>, value |-> strip(v)]

\* the validator of class_name: [errors, value]
validate_class_name(v) ==
    IF strip(v) = <<>>
    THEN [errors |-> <<Error("class_name", "value_error", "Class name cannot be empty", <<>>, {})>>,
          value |-> v]
    ELSE IF remove_special(strip(v)) = <<>>
    THEN [errors |-> <<Error("class_name", "value_error",
                             "Class name must contain valid characters", <<>>, {})>>,
          value |-> v]
    ELSE [errors |-> <<>>, value |-> remove_special(strip(v))]

\* mutant: the accepted color is returned as written
validate_color_as_written(v) ==
    IF v = None THEN [errors |-> <<>>, value |-> v]
    ELSE IF lower(v) \notin valid_colors
    THEN [errors |-> <<Error("color", "value_error", "Invalid color", v, {})>>, value |-> v]
    ELSE [errors |-> <<>>, value |-> v]

\* the validator of color: [errors, value]
validate_color(v) ==
    IF v = None THEN [errors |-> <<>>, value |-> v]
    ELSE IF lower(v) \notin valid_colors
    THEN [errors |-> <<Error("color", "value_error", "Invalid color", v, {})>>, value |-> v]
    ELSE [errors |-> <<>>, value |-> lower(v)]

\* the class_name field: the Field length constraints, then the validator
class_name_field(v) ==
    IF Len(v) < 1
    THEN [errors |-> <<Error("class_name", "min_length", "too short", <<>>, {})>>, value |-> v]
    ELSE IF Len(v) > MaxClassNameLength
    THEN [errors |-> <<Error("class_name", "max_length", "too long", <<>>, {})>>, value |-> v]
    ELSE validate_class_name(v)

\* the color field: Optional, the Field length constraint, then the validator
color_field(v) ==
    IF v # None /\ Len(v) > MaxColorLength
    THEN [errors |-> <<Error("color", "max_length", "too long", <<>>, {})>>, value |-> v]
    ELSE validate_color(v)

\* ClassColorEntry(class_name=..., color=...): the errors of both fields, or the entry
ClassColorEntry(class_name, color) ==
    LET n == class_name_field(class_name)
        c == color_field(color)
    IN  [errors |-> n.errors \o c.errors,
         value  |-> [class_name |-> n.value, color |-> c.value]]

\* mutant: a name counts as duplicated from its third occurrence
duplicates_from_third(class_names) ==
    {n \in Range(class_names) :
        Cardinality({i \in 1..Len(class_names) : class_names[i] = n}) > 2}

\* [name for name in set(class_names) if class_names.count(name) > 1]
duplicates(class_names) ==
    {n \in Range(class_names) :
        Cardinality({i \in 1..Len(class_names) : class_names[i] = n}) > 1}

\* the validator of entries
validate_unique_class_names(v) ==
    LET class_names == [i \in 1..Len(v) |-> v[i].class_name]
    IN  IF duplicates(class_names) # {}
        THEN <<Error("entries", "value_error", "Duplicate class names found",
                     <<>>, duplicates(class_names))>>
        ELSE <<>>

\* ClassColorConfig(entries=...): the item-count constraints, then the validator
ClassColorConfig(entries) ==
    IF Len(entries) < 1
    THEN <<Error("entries", "min_items", "too few", <<>>, {})>>
    ELSE IF Len(entries) > MaxItems
    THEN <<Error("entries", "max_items", "too many", <<>>, {})>>
    ELSE validate_unique_class_names(entries)

\* one message of the "Validation errors" list: the msg alone for a
\* value_error, "<loc>: <msg>" otherwise
error_message(error) ==
    [loc   |-> IF error.type = "value_error" THEN "" ELSE error.loc,
     msg   |-> error.msg,
     arg   |-> error.arg,
     names |-> error.names]

error_messages(errors) == [i \in 1..Len(errors) |-> error_message(errors[i])]

\* the loop of validate_class_color_file over lines[j..]: it ends at the first
\* entry whose construction raises ValidationError
RECURSIVE validate_lines(_, _, _)
validate_lines(lines, j, entries) ==
    IF j > Len(lines)
    THEN [errors |-> <<>>, entries |-> entries]
    ELSE LET line == strip(lines[j])
         IN  IF is_entry_line(line)
             THEN LET parts == split_once(line, ":")
                      e == IF contains(line, ":")
                           THEN ClassColorEntry(strip(parts[1]), strip(parts[2]))
                           ELSE ClassColorEntry(line, None)
                  IN  IF e.errors # <<>>
                      THEN [errors |-> e.errors, entries |-> entries]
                      ELSE validate_lines(lines, j + 1, Append(entries, e.value))
             ELSE validate_lines(lines, j + 1, entries)

\* (is_valid, message, config); config is <<>> where the code returns None
validate_class_color_file(content) ==
    LET r == validate_lines(split(strip(content), "\n"), 1, <<>>)
    IN  IF r.errors # <<>>
        THEN [is_valid |-> FALSE, message |-> "Validation errors",
              errors |-> error_messages(r.errors), config |-> <<>>]
        ELSE IF r.entries = <<>>
        THEN [is_valid |-> FALSE, message |-> "No valid class entries found in file",
              errors |-> <<>>, config |-> <<>>]
        ELSE IF ClassColorConfig(r.entries) # <<>>
        THEN [is_valid |-> FALSE, message |-> "Validation errors",
              errors |-> error_messages(ClassColorConfig(r.entries)), config |-> <<>>]
        ELSE [is_valid |-> TRUE, message |-> "Valid configuration",
              errors |-> <<>>, config |-> r.entries]

----------------------------------------------------------------------------
(* Inputs: legend texts, legacy color texts, raw detections.               *)

\* "\n".join(lines)
RECURSIVE join(_)
join(lines) ==
    IF lines = <<>> THEN <<>>
    ELSE IF Len(lines) = 1 THEN lines[1]
    ELSE lines[1] \o <<"\n">> \o join(Tail(lines))

\* n copies of the character c
Rep(c, n) == [i \in 1..n |-> c]

SeqsUpTo(S, n) == UNION {[1..k -> S] : k \in 0..n}

LinePool == { <<>>, <<"#","x">>, <<"c","a","t">>, <<"d","o","g">>, <<"c","a","t",":","r","e","d">>, <<"d","o","g",":","R","E","D">> }

ExtraLegends ==
    { <<"p","e","r","s","o","n",":","r","e","d","\n","c","a","r","\n">>,
      <<"#"," ","l","e","g","e","n","d","\n","p","e","r","s","o","n",":","r","e","d","\n","\n","c","a","r">>,
      <<" ","c","a","t"," ",":"," ","b","l","u","e"," ","\n","d","o","g">>,
      <<"c","a","t","\n","c","a","t","\n","d","o","g","\n","d","o","g">>,
      <<"c","!","t">>,
      <<"c","!","t",":","R","E","D">>,
      <<"c","!","t","\n","c","t">>,
      <<"!">>,
      <<"c","a","t","\n","!",":","r","e","d">>,
      <<"c","a","t",":","n","e","o","n">>,
      <<"d","o","g","\n","c","a","t",":","n","e","o","n">>,
      <<"c","a","t",":","n","e","o","n","\n","d","o","g",":","z","a","p">>,
      <<"c","a","t",":","n","e","o","n","\n","d","o","g","\n","d","o","g">>,
      <<"!",":","n","e","o","n">>,
      <<"c","a","t",":","r","e","d",":","x">>,
      <<"c","a","t",":">>,
      <<":","r","e","d">>,
      <<" "," ">>,
      Rep("a", MaxClassNameLength),
      Rep("a", MaxClassNameLength) \o <<"!">>,
      Rep("a", MaxClassNameLength + 1),
      <<"c","a","t",":">> \o Rep("x", MaxColorLength),
      <<"c","a","t",":">> \o Rep("x", MaxColorLength + 1) }

Legends == {join(ls) : ls \in SeqsUpTo(LinePool, MaxLines)} \cup ExtraLegends

LegacyColorConfigs == { <<>>, <<"c","a","t",":","g","r","e","e","n","\n","d","o","g",":","t","e","a","l",":","x">> }

\* legend texts without any class entry, legacy texts without any color entry
EmptyLegends == { <<>>, <<"#","x">>, <<"\n">>, <<"#"," ","a","\n","#","b">>, <<" "," ">> }
EmptyLegacyColorConfigs == { <<>>, <<"#","o","l","d">> }

Confidences == {91}
Boxes == { <<105, 100, 509, 500>> }

\* no image returned yet
NoImage == [pixels |-> "none", drawn |-> <<>>]

\* the PIL image opened from the uploaded file
UploadedImage == [pixels |-> "upload", drawn |-> <<>>]

RawBoxes(ids) ==
    {[cls |-> k, conf |-> c, xyxy |-> b] : k \in ids, c \in Confidences, b \in Boxes}

----------------------------------------------------------------------------
(* Pydantic model of an uploaded image and validate_image_file.            *)
(* An uploaded file is [name, size, decodable, width, height]: size is     *)
(* len(getvalue()), decodable whether Image.open accepts the bytes, width  *)
(* and height the decoded image.size.                                      *)

MaxFileNameLength == 255
MaxFileSize == 50 * 1024 * 1024
MaxImageWidth == 10000
MaxImageHeight == 10000

\* s.rfind(c), counted from 1; 0 when c is not in s
rfind(s, c) == Max({0} \cup {i \in 1..Len(s) : s[i] = c})

\* s.endswith(t)
endswith(s, t) == Len(s) >= Len(t) /\ SubSeq(s, Len(s) - Len(t) + 1, Len(s)) = t

\* os.path.splitext(p)[1]: from the last dot of the last path component,
\* unless only dots precede it there
splitext(p) ==
    LET sepIndex == rfind(p, "/")
        dotIndex == rfind(p, ".")
    IN  IF dotIndex > sepIndex /\ \E i \in (sepIndex + 1)..(dotIndex - 1) : p[i] # "."
        THEN SubSeq(p, dotIndex, Len(p))
        ELSE <<>>

dangerous_chars == {"<", ">", ":", "\"", "|", "?", "*", "\\", "/"}

valid_extensions == { <<".","j","p","g">>, <<".","j","p","e","g">>, <<".","p","n","g">>, <<".","b","m","p">> }

\* the validator of file_name: [errors, value]
validate_file_name(v) ==
    IF strip(v) = <<>>
    THEN [errors |-> <<Error("file_name", "value_error", "File name cannot be empty", v, {})>>,
          value |-> v]
    ELSE IF \E char \in dangerous_chars : contains(v, char)
    THEN [errors |-> <<Error("file_name", "value_error",
                             "File name contains invalid characters", v, {})>>,
          value |-> v]
    ELSE [errors |-> <<>>, value |-> strip(v)]

\* the validator of file_type: [errors, value]
validate_file_type(v) ==
    IF lower(v) \notin valid_extensions
    THEN [errors |-> <<Error("file_type", "value_error", "Invalid file type", v, {})>>,
          value |-> v]
    ELSE [errors |-> <<>>, value |-> lower(v)]

\* the file_name field: the Field length constraints, then the validator
file_name_field(v) ==
    IF Len(v) < 1
    THEN [errors |-> <<Error("file_name", "min_length", "too short", v, {})>>, value |-> v]
    ELSE IF Len(v) > MaxFileNameLength
    THEN [errors |-> <<Error("file_name", "max_length", "too long", v, {})>>, value |-> v]
    ELSE validate_file_name(v)

\* the file_size field with the upper limit exclusive
file_size_field_below_limit(v) ==
    IF ~(v > 0)
    THEN [errors |-> <<Error("file_size", "greater_than", "not greater than 0", <<>>, {})>>,
          value |-> v]
    ELSE IF ~(v < MaxFileSize)
    THEN [errors |-> <<Error("file_size", "less_than_equal", "too large", <<>>, {})>>,
          value |-> v]
    ELSE [errors |-> <<>>, value |-> v]

\* the file_size field: gt=0, le=50*1024*1024
file_size_field(v) ==
    IF ~(v > 0)
    THEN [errors |-> <<Error("file_size", "greater_than", "not greater than 0", <<>>, {})>>,
          value |-> v]
    ELSE IF ~(v <= MaxFileSize)
    THEN [errors |-> <<Error("file_size", "less_than_equal", "too large", <<>>, {})>>,
          value |-> v]
    ELSE [errors |-> <<>>, value |-> v]

\* the file_type field: the pattern \.(jpg|jpeg|png|bmp)$, then the validator
file_type_field(v) ==
    IF ~\E ext \in valid_extensions : endswith(v, ext)
    THEN [errors |-> <<Error("file_type", "pattern", "does not match", v, {})>>, value |-> v]
    ELSE validate_file_type(v)

\* the image_width field: gt=0, le=10000
image_width_field(v) ==
    IF ~(v > 0)
    THEN [errors |-> <<Error("image_width", "greater_than", "not greater than 0", <<>>, {})>>,
          value |-> v]
    ELSE IF ~(v <= MaxImageWidth)
    THEN [errors |-> <<Error("image_width", "less_than_equal", "too large", <<>>, {})>>,
          value |-> v]
    ELSE [errors |-> <<>>, value |-> v]

\* the image_height field: gt=0, le=10000
image_height_field(v) ==
    IF ~(v > 0)
    THEN [errors |-> <<Error("image_height", "greater_than", "not greater than 0", <<>>, {})>>,
          value |-> v]
    ELSE IF ~(v <= MaxImageHeight)
    THEN [errors |-> <<Error("image_height", "less_than_equal", "too large", <<>>, {})>>,
          value |-> v]
    ELSE [errors |-> <<>>, value |-> v]

\* ImageValidation(file_name=..., ...): the errors of all fields in field
\* order (the constructor raises ValidationError when there are any), or the model
ImageValidation(file_name, file_size, file_type, image_width, image_height) ==
    LET n == file_name_field(file_name)
        s == file_size_field(file_size)
        t == file_type_field(file_type)
        w == image_width_field(image_width)
        h == image_height_field(image_height)
    IN  [errors |-> n.errors \o s.errors \o t.errors \o w.errors \o h.errors,
         value  |-> [file_name |-> n.value, file_size |-> s.value, file_type |-> t.value,
                     image_width |-> w.value, image_height |-> h.value]]

NoImageModel ==
    [file_name |-> <<>>, file_size |-> 0, file_type |-> <<>>, image_width |-> 0, image_height |-> 0]

\* the inner try block of validate_image_file: [raised, errors, validation],
\* raised naming the exception class that left the block, "" when it returned
open_and_validate(uploaded_file) ==
    LET file_name == uploaded_file.name
        file_size == uploaded_file.size
        file_ext == lower(splitext(file_name))
    IN  IF ~uploaded_file.decodable
        THEN [raised |-> "UnidentifiedImageError", errors |-> <<>>, validation |-> NoImageModel]
        ELSE LET v == ImageValidation(file_name, file_size, file_ext,
                                      uploaded_file.width, uploaded_file.height)
             IN  IF v.errors # <<>>
                 THEN [raised |-> "ValidationError", errors |-> v.errors,
                       validation |-> NoImageModel]
                 ELSE [raised |-> "", errors |-> <<>>, validation |-> v.value]

\* validate_image_file(uploaded_file): [is_valid, message, errors, validation];
\* message is the text before the colon, errors what str(img_error) lists.
\* The inner handler is "except Exception": it takes every exception of the
\* inner block, the ValidationError of the constructor included, so nothing
\* reaches the outer "except ValidationError".
validate_image_file(uploaded_file) ==
    LET r == open_and_validate(uploaded_file)
    IN  IF r.raised # ""
        THEN [is_valid |-> FALSE, message |-> "Invalid image format", errors |-> r.errors,
              validation |-> NoImageModel]
        ELSE [is_valid |-> TRUE, message |-> "Valid image", errors |-> <<>>,
              validation |-> r.validation]

\* file names of the uploads
FileNames ==
    { <<"a",".","j","p","g">>,
      <<"A",".","J","P","G">>,
      <<"b",".","j","p","e","g">>,
      <<"b",".","p","n","g">>,
      <<"b",".","b","m","p">>,
      <<"b",".","g","i","f">>,
      <<"a">>,
      <<".","j","p","g">>,
      <<"a",".","j","p","g",".","t","x","t">>,
      <<" "," ">>,
      <<" ","a",".","p","n","g"," ">>,
      <<".",".","p","n","g">>,
      <<"a","<","b",".","j","p","g">>,
      <<"a",">","b",".","j","p","g">>,
      <<"a",":","b",".","j","p","g">>,
      <<"a","\"","b",".","j","p","g">>,
      <<"a","|","b",".","j","p","g">>,
      <<"a","?","b",".","j","p","g">>,
      <<"a","*","b",".","j","p","g">>,
      <<"a","\\","b",".","j","p","g">>,
      <<"a","/","b",".","j","p","g">>,
      Rep("a", MaxFileNameLength - 4) \o <<".","j","p","g">>,
      Rep("a", MaxFileNameLength - 3) \o <<".","j","p","g">> }

FileSizes == {1, MaxFileSize, MaxFileSize + 1}
ImageWidths == {0, 1, MaxImageWidth, MaxImageWidth + 1}
ImageHeights == {0, 1, MaxImageHeight, MaxImageHeight + 1}

\* the uploads: bytes PIL decodes, and bytes it does not (the empty file among them)
UploadedFiles ==
    {[name |-> n, size |-> s, decodable |-> TRUE, width |-> w, height |-> h] :
        n \in FileNames, s \in FileSizes, w \in ImageWidths, h \in ImageHeights}
    \cup
    {[name |-> n, size |-> s, decodable |-> FALSE, width |-> 0, height |-> 0] :
        n \in FileNames, s \in {0} \cup FileSizes}

NoFile == [name |-> <<>>, size |-> 0, decodable |-> FALSE, width |-> 0, height |-> 0]
NoImageValidation ==
    [is_valid |-> FALSE, message |-> "", errors |-> <<>>, validation |-> NoImageModel]

----------------------------------------------------------------------------
(* The database, the models directory and the session before any use.      *)

\* init_database on an absent yolo_projects.db, an absent models directory
InitStore ==
    /\ projects = {}
    /\ images = {}
    /\ model_files = EmptyMap
    /\ project_seq = 0
    /\ image_seq = 0
    /\ now = 0

\* st.form("create_project_form") with nothing typed and nothing uploaded
EmptyForm ==
    [project_name |-> <<>>, creator_name |-> <<>>, model_file |-> "None",
     class_names_file |-> None]

\* a fresh session: the first page of the navigation, every widget at its default;
\* created_project_id is the id the Create Project page reports, 0 when it reports none
InitSession ==
    /\ create_project_form = EmptyForm
    /\ created_project_id = 0
    /\ page = "Create Project"
    /\ trigger = "none"
    /\ selected_project_name = None
    /\ uploaded_files = <<>>
    /\ selected_images_for_delete = {}
    /\ bulk_confirm_shown = FALSE
    /\ session_state = {}
    /\ projects_listed = <<>>
    /\ images_listed = <<>>

\* the browser sessions that share the database and the models directory
Sessions == {"first", "second"}

\* no project row
NoProject ==
    [id |-> 0, name |-> <<>>, creator |-> <<>>, model_path |-> <<>>, class_names |-> <<>>,
     color_config |-> <<>>, created_at |-> 0]

\* a session between two runs of its script
Idle == [op |-> "idle", form |-> EmptyForm, project |-> NoProject, files |-> <<>>]

\* the Create Project forms the users are going to submit: pairwise distinct
\* in name and creator, each with model weights and a legend that validates
OpsForms ==
    {[project_name |-> <<"a","_","b">>, creator_name |-> <<"c">>, model_file |-> "weights",
      class_names_file |-> <<"c","a","t">>],
     [project_name |-> <<"a">>, creator_name |-> <<"b","_","c">>, model_file |-> "weights",
      class_names_file |-> <<"c","a","t">>],
     [project_name |-> <<"p">>, creator_name |-> <<"u">>, model_file |-> "weights",
      class_names_file |-> <<"c","a","t">>]}

\* no session has started a handler, no form was submitted yet
InitOps ==
    /\ in_progress = [session \in Sessions |-> Idle]
    /\ to_create = OpsForms

----------------------------------------------------------------------------
(* State machine. Every interaction is one run of the page script; op and  *)
(* the output variables hold what the run computed, until the next         *)
(* interaction reruns the script from fresh locals.                        *)

NoParse == [class_names |-> <<>>, color_map |-> EmptyMap]
NoValidation == [is_valid |-> FALSE, message |-> "", errors |-> <<>>, config |-> <<>>]

InitOutputs ==
    /\ op = "none"
    /\ parsed = NoParse
    /\ validation = NoValidation
    /\ boxes = <<>>
    /\ detection_data = <<>>
    /\ image = UploadedImage
    /\ processed_image = NoImage
    /\ process_error = ""
    /\ image_validation = NoImageValidation

Init ==
    /\ project_class_names \in Legends
    /\ project_color_config \in LegacyColorConfigs
    /\ YOLO_AVAILABLE \in BOOLEAN
    /\ upload = NoFile
    /\ InitOutputs
    /\ InitStore
    /\ InitSession
    /\ InitOps

\* Upload Images page: the class/color summary of the selected project
ParseLegend ==
    /\ op = "none"
    /\ op' = "parse"
    /\ parsed' = parse_unified_class_config(project_class_names)
    /\ validation' = NoValidation
    /\ boxes' = <<>>
    /\ detection_data' = <<>>
    /\ processed_image' = NoImage
    /\ process_error' = ""
    /\ image_validation' = NoImageValidation
    /\ UNCHANGED <<project_class_names, project_color_config, YOLO_AVAILABLE, image,
                   upload>>
    /\ UNCHANGED <<store_vars, session_vars, ops_vars>>

\* Create Project page: validation of the uploaded legend
ValidateLegend ==
    /\ op = "none"
    /\ op' = "validate"
    /\ validation' = validate_class_color_file(project_class_names)
    /\ parsed' = NoParse
    /\ boxes' = <<>>
    /\ detection_data' = <<>>
    /\ processed_image' = NoImage
    /\ process_error' = ""
    /\ image_validation' = NoImageValidation
    /\ UNCHANGED <<project_class_names, project_color_config, YOLO_AVAILABLE, image,
                   upload>>
    /\ UNCHANGED <<store_vars, session_vars, ops_vars>>

\* Upload Images page: one image through process_image_with_yolo
ProcessImage(ids, n) ==
    \E raw \in SeqsUpTo(RawBoxes(ids), n), raises \in BOOLEAN :
        /\ op = "none"
        /\ op' = "process"
        /\ boxes' = raw
        /\ detection_data' =
               process_image_with_yolo(raw, project_class_names, project_color_config,
                                       YOLO_AVAILABLE, raises)
        /\ processed_image' =
               processed_image_of(image, raw, project_class_names, project_color_config,
                                  YOLO_AVAILABLE, raises)
        /\ process_error' = process_error_of(YOLO_AVAILABLE, raises)
        /\ image' =
               image_after(image, raw, project_class_names, project_color_config,
                           YOLO_AVAILABLE, raises)
        /\ parsed' = NoParse
        /\ validation' = NoValidation
        /\ image_validation' = NoImageValidation
        /\ UNCHANGED <<project_class_names, project_color_config, YOLO_AVAILABLE, upload>>
        /\ UNCHANGED <<store_vars, session_vars, ops_vars>>

UploadImage == ProcessImage(0..MaxClassId, MaxDets)

\* the next interaction: the script starts over, the last run's values are gone
Rerun ==
    /\ op # "none"
    /\ op' = "none"
    /\ parsed' = NoParse
    /\ validation' = NoValidation
    /\ boxes' = <<>>
    /\ detection_data' = <<>>
    /\ processed_image' = NoImage
    /\ process_error' = ""
    /\ image_validation' = NoImageValidation
    /\ UNCHANGED <<project_class_names, project_color_config, YOLO_AVAILABLE, image,
                   upload>>
    /\ UNCHANGED <<store_vars, session_vars, ops_vars>>

Next == ParseLegend \/ ValidateLegend \/ UploadImage \/ Rerun

Spec == Init /\ [][Next]_vars

\* Color resolution on legends without entries, over the whole palette
InitPalette ==
    /\ project_class_names \in EmptyLegends
    /\ project_color_config \in EmptyLegacyColorConfigs
    /\ YOLO_AVAILABLE \in BOOLEAN
    /\ upload = NoFile
    /\ InitOutputs
    /\ InitStore
    /\ InitSession
    /\ InitOps

UploadPaletteImage == ProcessImage(0..MaxPaletteId, MaxPaletteDets)

NextPalette == UploadPaletteImage \/ Rerun

SpecPalette == InitPalette /\ [][NextPalette]_vars

\* Image validation of one uploaded file
InitImage ==
    /\ project_class_names = <<>>
    /\ project_color_config = <<>>
    /\ YOLO_AVAILABLE = TRUE
    /\ upload \in UploadedFiles
    /\ InitOutputs
    /\ InitStore
    /\ InitSession
    /\ InitOps

\* Upload Images page: validate_image_file on the uploaded file
ValidateImage ==
    /\ op = "none"
    /\ op' = "validate_image"
    /\ image_validation' = validate_image_file(upload)
    /\ parsed' = NoParse
    /\ validation' = NoValidation
    /\ boxes' = <<>>
    /\ detection_data' = <<>>
    /\ processed_image' = NoImage
    /\ process_error' = ""
    /\ UNCHANGED <<project_class_names, project_color_config, YOLO_AVAILABLE, image,
                   upload>>
    /\ UNCHANGED <<store_vars, session_vars, ops_vars>>

NextImage == ValidateImage \/ Rerun

SpecImage == InitImage /\ [][NextImage]_vars

----------------------------------------------------------------------------
(* Persistence: the sqlite tables projects and images and the models       *)
(* directory. A store is [projects, images, model_files, project_seq,      *)
(* image_seq]: the rows of both tables, the bytes under each path of the   *)
(* models directory, and the AUTOINCREMENT counters of both tables.        *)

\* projects ever created
MaxProjects == 2
\* image rows ever inserted
MaxImages == 2
\* seconds the clock advances
MaxTime == 1
\* files in the uploader at once
MaxBatch == 2

\* lastrowid belongs to the cursor of one call: 0 on a cursor that inserted nothing
Store ==
    [projects |-> projects, images |-> images, model_files |-> model_files,
     project_seq |-> project_seq, image_seq |-> image_seq, lastrowid |-> 0]

\* the tables and the directory after the statements of one run
SetStore(s) ==
    /\ projects' = s.projects
    /\ images' = s.images
    /\ model_files' = s.model_files
    /\ project_seq' = s.project_seq
    /\ image_seq' = s.image_seq

\* f"models/{name}_{creator}.pt"
model_path_of(name, creator) ==
    <<"m","o","d","e","l","s","/">> \o name \o <<"_">> \o creator \o <<".","p","t">>

\* save_project_to_db on a table whose id is INTEGER PRIMARY KEY without
\* AUTOINCREMENT: the new id is one more than the largest id in the table
save_project_to_db_rowid(s, name, creator, model_bytes, class_names_content, ts) ==
    LET temp_model_path == model_path_of(name, creator)
        row == [id |-> Max({0} \cup {r.id : r \in s.projects}) + 1,
                name |-> name, creator |-> creator,
                model_path |-> temp_model_path, class_names |-> class_names_content,
                color_config |-> <<>>, created_at |-> ts]
    IN  [s EXCEPT !.model_files = Put(@, temp_model_path, model_bytes),
                  !.projects = @ \cup {row},
                  !.project_seq = @ + 1,
                  !.lastrowid = row.id]

\* with open(temp_model_path, 'wb') as f: f.write(model_bytes)
write_model_file(s, name, creator, model_bytes) ==
    [s EXCEPT !.model_files = Put(@, model_path_of(name, creator), model_bytes)]

\* INSERT INTO projects ... and conn.commit(): created_at = CURRENT_TIMESTAMP,
\* the id is AUTOINCREMENT, one more than the largest id the table ever held
insert_project(s, name, creator, class_names_content, ts) ==
    LET row == [id |-> s.project_seq + 1, name |-> name, creator |-> creator,
                model_path |-> model_path_of(name, creator),
                class_names |-> class_names_content,
                color_config |-> <<>>, created_at |-> ts]
    IN  [s EXCEPT !.projects = @ \cup {row},
                  !.project_seq = @ + 1,
                  !.lastrowid = row.id]

\* save_project_to_db: the model bytes are written under the path, then the
\* row is inserted and committed
save_project_to_db(s, name, creator, model_bytes, class_names_content, ts) ==
    insert_project(write_model_file(s, name, creator, model_bytes),
                   name, creator, class_names_content, ts)

\* return cursor.lastrowid
lastrowid(s) == s.lastrowid

\* save_image_to_db: one row with uploaded_at = CURRENT_TIMESTAMP
save_image_to_db(s, project_id, original_image, processed_bytes, detection_results, ts) ==
    LET row == [id |-> s.image_seq + 1, project_id |-> project_id,
                original_image |-> original_image, processed_image |-> processed_bytes,
                detection_results |-> detection_results, uploaded_at |-> ts]
    IN  [s EXCEPT !.images = @ \cup {row}, !.image_seq = @ + 1]

\* the orders in which a SELECT may return the rows of a set
row_orders(S) ==
    {f \in [1..Cardinality(S) -> S] : \A x \in S : \E i \in 1..Cardinality(S) : f[i] = x}

\* SELECT * FROM projects ORDER BY created_at ASC
get_all_projects_oldest_first(s) ==
    {f \in row_orders(s.projects) :
        \A i, j \in DOMAIN f : i < j => f[i].created_at <= f[j].created_at}

\* get_all_projects: SELECT * FROM projects ORDER BY created_at DESC. The
\* timestamp counts whole seconds and nothing orders the rows of one second.
get_all_projects(s) ==
    {f \in row_orders(s.projects) :
        \A i, j \in DOMAIN f : i < j => f[i].created_at >= f[j].created_at}

\* get_project_images: SELECT * FROM images WHERE project_id = ? ORDER BY uploaded_at DESC
get_project_images(s, project_id) ==
    {f \in row_orders({r \in s.images : r.project_id = project_id}) :
        \A i, j \in DOMAIN f : i < j => f[i].uploaded_at >= f[j].uploaded_at}

\* delete_image_from_db: DELETE FROM images WHERE id = ?
delete_image_from_db(s, image_id) ==
    [s EXCEPT !.images = {r \in @ : r.id # image_id}]

\* the loop of the bulk delete over image_ids_to_delete
delete_images(s, image_ids_to_delete) ==
    [s EXCEPT !.images = {r \in @ : r.id \notin image_ids_to_delete}]

\* os.remove(path) inside try/except: a missing file is passed over
remove(files, path) == [k \in (DOMAIN files) \ {path} |-> files[k]]

\* the delete of the Project Management page that leaves the image rows alone
delete_project_row_only(s, project) ==
    [s EXCEPT !.projects = {r \in @ : r.id # project.id},
              !.model_files = remove(@, project.model_path)]

\* DELETE FROM images WHERE project_id = ?, DELETE FROM projects WHERE id = ?
\* and conn.commit(): one transaction
delete_project_rows(s, project) ==
    [s EXCEPT !.images = {r \in @ : r.project_id # project.id},
              !.projects = {r \in @ : r.id # project.id}]

\* os.remove(project[3]) inside try/except
remove_model_file(s, project) ==
    [s EXCEPT !.model_files = remove(@, project.model_path)]

\* the delete of the Project Management page: both DELETE statements in one
\* transaction, then the removal of the model file
delete_project(s, project) ==
    remove_model_file(delete_project_rows(s, project), project)

\* image_to_bytes: the PNG encoding of an image (lossless)
image_to_bytes(img) == [format |-> "PNG", pixels |-> img.pixels, drawn |-> img.drawn]

\* ", ".join(items)
join_comma(items) ==
    LET RECURSIVE from(_)
        from(i) == IF i > Len(items) THEN <<>>
                   ELSE IF i = Len(items) THEN items[i]
                   ELSE items[i] \o <<",", " ">> \o from(i + 1)
    IN  from(1)

\* repr of a text without quotes or backslashes
repr_text(t) == <<"'">> \o t \o <<"'">>

\* repr of a confidence given in hundredths
repr_confidence(c) ==
    str(c \div 100) \o <<".">> \o
    (IF c % 10 = 0 THEN <<DigitSeq[((c \div 10) % 10) + 1]>>
     ELSE <<DigitSeq[((c \div 10) % 10) + 1], DigitSeq[(c % 10) + 1]>>)

\* repr of one detection dict
repr_detection(d) ==
    <<"{","'","c","l","a","s","s","_","n","a","m","e","'",":"," ">> \o repr_text(d.class_name)
    \o <<","," ","'","c","o","n","f","i","d","e","n","c","e","'",":"," ">> \o repr_confidence(d.confidence)
    \o <<","," ","'","b","b","o","x","'",":"," ","[">> \o join_comma([c \in 1..4 |-> str(d.bbox[c])])
    \o <<"]",","," ","'","c","o","l","o","r","'",":"," ">> \o repr_text(d.color) \o <<"}">>

\* str(detection_results)
str_of_detections(detection_results) ==
    <<"[">> \o join_comma([i \in 1..Len(detection_results) |->
                              repr_detection(detection_results[i])]) \o <<"]">>

\* Image.open(uploaded_file)
Image_open(uploaded_file) == [pixels |-> uploaded_file.pixels, drawn |-> <<>>]

\* YOLO(model_path) loads: the file is there and holds model weights
model_loads(s, model_path) ==
    model_path \in DOMAIN s.model_files /\ s.model_files[model_path] = "weights"

\* results = model(image): the raw boxes the model reports for the picture
inference(img) ==
    IF img.pixels = "street"
    THEN <<[cls |-> 0, conf |-> 91, xyxy |-> <<105, 100, 509, 500>>]>>
    ELSE <<>>

\* original_bytes, processed_bytes and str(detections) of one uploaded image,
\* stored as one record
save_images(s, project_id, held, results, ts) ==
    save_image_to_db(s, project_id, image_to_bytes(held.original),
                     image_to_bytes(held.annotated), str_of_detections(results), ts)

\* the loop over valid_images that stores a record only when the annotation
\* did not take the error path
process_valid_images_unless_error(s, valid_images, i, selected_project, ts) ==
    LET RECURSIVE loop(_, _)
        loop(st, k) ==
            IF k > Len(valid_images) THEN st
            ELSE LET img == Image_open(valid_images[k])
                     raises == ~model_loads(st, selected_project.model_path)
                     raw == IF raises THEN <<>> ELSE inference(img)
                     results == process_image_with_yolo(raw, selected_project.class_names,
                                    selected_project.color_config, TRUE, raises)
                     held == images_of(process_image_objects(img, raw,
                                 selected_project.class_names,
                                 selected_project.color_config, TRUE, raises))
                 IN  IF raises THEN loop(st, k + 1)
                     ELSE loop(save_images(st, selected_project.id, held, results, ts),
                               k + 1)
    IN  loop(s, i)

\* the loop over valid_images: open, annotate, encode both images, store the record
process_valid_images(s, valid_images, i, selected_project, ts) ==
    LET RECURSIVE loop(_, _)
        loop(st, k) ==
            IF k > Len(valid_images) THEN st
            ELSE LET img == Image_open(valid_images[k])
                     raises == ~model_loads(st, selected_project.model_path)
                     raw == IF raises THEN <<>> ELSE inference(img)
                     results == process_image_with_yolo(raw, selected_project.class_names,
                                    selected_project.color_config, TRUE, raises)
                     held == images_of(process_image_objects(img, raw,
                                 selected_project.class_names,
                                 selected_project.color_config, TRUE, raises))
                 IN  loop(save_images(st, selected_project.id, held, results, ts), k + 1)
    IN  loop(s, i)

----------------------------------------------------------------------------
(* Widgets.                                                                *)

\* f"{p[1]} (by {p[2]})"
option_label(p) == p.name \o <<" ","(","b","y"," ">> \o p.creator \o <<")">>

\* {f"{p[1]} (by {p[2]})": p[0] for p in projects}: a later row of the list
\* replaces the id of an earlier row with the same key
project_options(listed) ==
    [l \in {option_label(listed[i]) : i \in DOMAIN listed} |->
        listed[Max({i \in DOMAIN listed : option_label(listed[i]) = l})].id]

\* list(project_options.keys()): the keys in the order of their first insertion
option_keys(listed) ==
    LET firsts == {i \in DOMAIN listed :
                      \A j \in DOMAIN listed : j < i => option_label(listed[j]) # option_label(listed[i])}
    IN  [k \in 1..Cardinality(firsts) |->
            option_label(listed[CHOOSE i \in firsts : Cardinality({j \in firsts : j < i}) = k - 1])]

\* st.selectbox: the value of the widget when it is still an option, else the first option
selectbox(options, value) ==
    IF \E i \in DOMAIN options : options[i] = value THEN value ELSE options[1]

----------------------------------------------------------------------------
(* Inputs of the pages.                                                    *)

ProjectNames == { <<"p">>, <<"q">> }
CreatorNames == { <<"u">> }
\* the bytes uploaded as the .pt file: model weights, or anything else
ModelFiles == {"weights", "garbage"}
\* the class/color files offered to the form: one the validator accepts, one it rejects
ClassNamesFiles == { <<"c","a","t",":","r","e","d","\n","d","o","g",":","b","l","u","e">>, <<"c","a","t",":","n","e","o","n">> }

\* a photo with one object, a file PIL cannot decode
StreetFile ==
    [name |-> <<"a",".","j","p","g">>, size |-> 2048, decodable |-> TRUE, width |-> 640, height |-> 480,
     pixels |-> "street"]
BrokenFile ==
    [name |-> <<"c",".","j","p","g">>, size |-> 2048, decodable |-> FALSE, width |-> 0, height |-> 0,
     pixels |-> "broken"]

StoreFiles == {StreetFile, BrokenFile}

\* what st.file_uploader can hold: distinct files, in the order they were added
Batches ==
    {b \in SeqsUpTo(StoreFiles, MaxBatch) : \A i, j \in DOMAIN b : i # j => b[i] # b[j]}

Pages == {"Create Project", "Upload Images", "View Images", "Project Management"}

\* the key of the confirmation flag of a project in st.session_state
confirm_delete(project_id) == <<"confirm_delete", project_id>>

\* the key of the confirmation flag of an image in st.session_state
confirm_delete_image(image_id) == <<"confirm_delete_image", image_id>>

\* st.session_state.show_details is True
show_details == <<"show_details">>

\* st.session_state.selected_image = image_data
set_selected_image(state, image_data) ==
    {e \in state : e[1] # "selected_image"} \cup {<<"selected_image", image_data>>}

\* st.session_state.selected_image
selected_image(state) == (CHOOSE e \in state : e[1] = "selected_image")[2]

\* the details view is rendered
details_shown(state) == show_details \in state

\* the grid of the View Images page: "View Details - Image <id>" stores the
\* row of the image and opens the details view
view_details(state, shown, trig, viewed) ==
    IF trig = "view" /\ \E i \in DOMAIN shown : shown[i].id = viewed
    THEN set_selected_image(state, shown[CHOOSE i \in DOMAIN shown : shown[i].id = viewed])
         \cup {show_details}
    ELSE state

\* st.session_state after the buttons of the details view: Close Details,
\* Delete Image while the flag of the selected image is not set, Yes and
\* Cancel while it is
details_buttons(state, trig) ==
    IF ~details_shown(state) THEN state
    ELSE IF trig = "close_details" THEN state \ {show_details}
    ELSE IF confirm_delete_image(selected_image(state).id) \notin state
    THEN IF trig = "delete_image"
         THEN state \cup {confirm_delete_image(selected_image(state).id)}
         ELSE state
    ELSE IF trig = "confirm_yes_img"
    THEN state \ {confirm_delete_image(selected_image(state).id), show_details}
    ELSE IF trig = "confirm_no_img"
    THEN state \ {confirm_delete_image(selected_image(state).id)}
    ELSE state

\* mutant: "Delete Image" removes the image at once, without the question
delete_image_at_once(state, trig) ==
    /\ details_shown(state)
    /\ trig \in {"delete_image", "confirm_yes_img"}

\* "Yes, Delete Image" reads True: the details view is rendered, the flag of the
\* selected image is set, and that button started the run
yes_delete_image(state, trig) ==
    /\ details_shown(state)
    /\ confirm_delete_image(selected_image(state).id) \in state
    /\ trig = "confirm_yes_img"

----------------------------------------------------------------------------
(* The page scripts. An interaction changes one widget and reruns the      *)
(* script of the page on screen; trig names the button whose click started *)
(* the run ("none" when a widget value changed instead): a button reads    *)
(* True only in that run. The other parameters are the widget values the   *)
(* run reads.                                                              *)

\* the Create Project page that saves a complete form without validating its legend
CreateProjectPageUnvalidated(project_name, creator_name, model_file, class_names_file) ==
    /\ page' = "Create Project"
    /\ trigger' = "submit"
    /\ create_project_form' =
           [project_name |-> project_name, creator_name |-> creator_name,
            model_file |-> model_file, class_names_file |-> class_names_file]
    /\ selected_project_name' = None
    /\ uploaded_files' = <<>>
    /\ selected_images_for_delete' = {}
    /\ bulk_confirm_shown' = FALSE
    /\ projects_listed' = <<>>
    /\ images_listed' = <<>>
    /\ UNCHANGED <<session_state, now>>
    /\ IF project_name # <<>> /\ creator_name # <<>> /\ model_file # "None"
          /\ class_names_file # None
       THEN IF FALSE
            THEN /\ UNCHANGED <<projects, images, model_files, project_seq, image_seq>>
                 /\ created_project_id' = 0
            ELSE LET saved == save_project_to_db(Store, project_name, creator_name,
                                                model_file, class_names_file, now)
                 IN  /\ SetStore(saved)
                     /\ created_project_id' = lastrowid(saved)
       ELSE /\ UNCHANGED <<projects, images, model_files, project_seq, image_seq>>
            /\ created_project_id' = 0

\* page == "Create Project", form submitted
CreateProjectPage(project_name, creator_name, model_file, class_names_file) ==
    /\ page' = "Create Project"
    /\ trigger' = "submit"
    /\ create_project_form' =
           [project_name |-> project_name, creator_name |-> creator_name,
            model_file |-> model_file, class_names_file |-> class_names_file]
    /\ selected_project_name' = None
    /\ uploaded_files' = <<>>
    /\ selected_images_for_delete' = {}
    /\ bulk_confirm_shown' = FALSE
    /\ projects_listed' = <<>>
    /\ images_listed' = <<>>
    /\ UNCHANGED <<session_state, now>>
    /\ IF project_name # <<>> /\ creator_name # <<>> /\ model_file # "None"
          /\ class_names_file # None
       THEN IF ~validate_class_color_file(class_names_file).is_valid
            THEN /\ UNCHANGED <<projects, images, model_files, project_seq, image_seq>>
                 /\ created_project_id' = 0
            ELSE LET saved == save_project_to_db(Store, project_name, creator_name,
                                                model_file, class_names_file, now)
                 IN  /\ SetStore(saved)
                     /\ created_project_id' = lastrowid(saved)
       ELSE /\ UNCHANGED <<projects, images, model_files, project_seq, image_seq>>
            /\ created_project_id' = 0

\* page == "Upload Images"
UploadImagesPage(trig, wanted_project_name, files) ==
    \E listed \in get_all_projects(Store) :
        /\ page' = "Upload Images"
        /\ trigger' = trig
        /\ create_project_form' = EmptyForm
        /\ created_project_id' = 0
        /\ projects_listed' = listed
        /\ images_listed' = <<>>
        /\ selected_images_for_delete' = {}
        /\ bulk_confirm_shown' = FALSE
        /\ UNCHANGED <<session_state, now>>
        /\ IF listed = <<>>
           THEN /\ selected_project_name' = None
                /\ uploaded_files' = <<>>
                /\ UNCHANGED <<projects, images, model_files, project_seq, image_seq>>
           ELSE LET name == selectbox(option_keys(listed), wanted_project_name)
                    selected_project_id == project_options(listed)[name]
                    selected_project == CHOOSE q \in projects : q.id = selected_project_id
                    valid_images ==
                        SelectSeq(files, LAMBDA f : validate_image_file(f).is_valid)
                IN  /\ selected_project_name' = name
                    /\ uploaded_files' = files
                    /\ image_seq + Len(valid_images) <= MaxImages
                    /\ SetStore(process_valid_images(Store, valid_images, 1,
                                                     selected_project, now))

\* page == "View Images"; viewed is the image whose "View Details" button
\* started the run, 0 when another widget did
ViewImagesPage(trig, wanted_project_name, wanted_images, viewed) ==
    \E listed \in get_all_projects(Store) :
        /\ page' = "View Images"
        /\ create_project_form' = EmptyForm
        /\ created_project_id' = 0
        /\ trigger' = trig
        /\ projects_listed' = listed
        /\ uploaded_files' = <<>>
        /\ now' = now
        /\ IF listed = <<>>
           THEN /\ selected_project_name' = None
                /\ images_listed' = <<>>
                /\ selected_images_for_delete' = {}
                /\ bulk_confirm_shown' = FALSE
                /\ UNCHANGED <<projects, images, model_files, project_seq, image_seq>>
                /\ UNCHANGED session_state
           ELSE LET name == selectbox(option_keys(listed), wanted_project_name)
                    selected_project_id == project_options(listed)[name]
                IN  \E shown \in get_project_images(Store, selected_project_id) :
                        /\ selected_project_name' = name
                        /\ IF shown = <<>>
                           THEN \* "No images found for this project": the run ends here
                                /\ images_listed' = <<>>
                                /\ selected_images_for_delete' = {}
                                /\ bulk_confirm_shown' = FALSE
                                /\ UNCHANGED <<projects, images, model_files,
                                               project_seq, image_seq>>
                                /\ UNCHANGED session_state
                           ELSE LET selected == wanted_images \cap {shown[i].id : i \in DOMAIN shown}
                                    delete_selected == selected # {} /\ trig = "bulk_delete"
                                    yes_delete == delete_selected /\ trig = "bulk_confirm_yes"
                                    state == view_details(session_state, shown, trig, viewed)
                                    after == IF yes_delete THEN delete_images(Store, selected)
                                             ELSE IF yes_delete_image(state, trig)
                                             THEN delete_image_from_db(Store, selected_image(state).id)
                                             ELSE Store
                                IN  /\ SetStore(after)
                                    /\ session_state' = details_buttons(state, trig)
                                    /\ images_listed' \in
                                           get_project_images(after, selected_project_id)
                                    /\ selected_images_for_delete' =
                                           IF yes_delete THEN {}
                                           ELSE {id \in selected : \E r \in after.images : r.id = id}
                                    /\ bulk_confirm_shown' = (delete_selected /\ ~yes_delete)

\* page == "Project Management"; project_id is the project whose button started the run
ProjectManagementPage(trig, project_id) ==
    LET present == \E q \in projects : q.id = project_id
        project == CHOOSE q \in projects : q.id = project_id
        flagged == confirm_delete(project_id) \in session_state
        after == IF present /\ flagged /\ trig = "confirm_yes"
                 THEN delete_project(Store, project)
                 ELSE Store
    IN  \E listed \in get_all_projects(after) :
            /\ page' = "Project Management"
            /\ trigger' = trig
            /\ create_project_form' = EmptyForm
            /\ created_project_id' = 0
            /\ projects_listed' = listed
            /\ images_listed' = <<>>
            /\ selected_project_name' = None
            /\ uploaded_files' = <<>>
            /\ selected_images_for_delete' = {}
            /\ bulk_confirm_shown' = FALSE
            /\ now' = now
            /\ SetStore(after)
            /\ session_state' =
                   IF present /\ ~flagged /\ trig = "delete"
                   THEN session_state \cup {confirm_delete(project_id)}
                   ELSE IF present /\ flagged /\ trig \in {"confirm_yes", "confirm_no"}
                   THEN session_state \ {confirm_delete(project_id)}
                   ELSE session_state

----------------------------------------------------------------------------
(* The interactions of the app.                                            *)

\* the sidebar navigation: the widgets of the page left behind are dropped
Navigate ==
    \E target \in Pages \ {page} :
        /\ UNCHANGED <<pipeline_vars, ops_vars>>
        /\ CASE target = "Upload Images" -> UploadImagesPage("none", None, <<>>)
             [] target = "View Images" -> ViewImagesPage("none", None, {}, 0)
             [] target = "Project Management" -> ProjectManagementPage("none", 0)
             [] OTHER ->
                  /\ page' = target
                  /\ trigger' = "none"
                  /\ create_project_form' = EmptyForm
                  /\ created_project_id' = 0
                  /\ selected_project_name' = None
                  /\ uploaded_files' = <<>>
                  /\ selected_images_for_delete' = {}
                  /\ bulk_confirm_shown' = FALSE
                  /\ projects_listed' = <<>>
                  /\ images_listed' = <<>>
                  /\ UNCHANGED <<session_state, store_vars>>

\* Create Project: "Create Project" pressed with the form filled in
SubmitProject ==
    \E project_name \in ProjectNames \cup {<<>>}, creator_name \in CreatorNames \cup {<<>>},
       model_file \in ModelFiles \cup {"None"}, class_names_file \in ClassNamesFiles \cup {None} :
        /\ page = "Create Project"
        /\ project_seq < MaxProjects
        /\ CreateProjectPage(project_name, creator_name, model_file, class_names_file)
        /\ UNCHANGED <<pipeline_vars, ops_vars>>

\* Upload Images: files added to or removed from the uploader
ChooseFiles ==
    \E files \in Batches :
        /\ page = "Upload Images"
        /\ projects_listed # <<>>
        /\ files # uploaded_files
        /\ UploadImagesPage("none", selected_project_name, files)
        /\ UNCHANGED <<pipeline_vars, ops_vars>>

\* Upload Images: another project picked in the selectbox
SelectUploadProject ==
    \E name \in Range(option_keys(projects_listed)) :
        /\ page = "Upload Images"
        /\ name # selected_project_name
        /\ UploadImagesPage("none", name, uploaded_files)
        /\ UNCHANGED <<pipeline_vars, ops_vars>>

\* Upload Images or View Images: the script rerun from the menu, widgets untouched
RerunPage ==
    /\ UNCHANGED <<pipeline_vars, ops_vars>>
    /\ \/ /\ page = "Upload Images"
          /\ UploadImagesPage("none", selected_project_name, uploaded_files)
       \/ /\ page = "View Images"
          /\ ViewImagesPage("none", selected_project_name, selected_images_for_delete, 0)

\* View Images: another project picked in the selectbox
SelectViewProject ==
    \E name \in Range(option_keys(projects_listed)) :
        /\ page = "View Images"
        /\ name # selected_project_name
        /\ ViewImagesPage("none", name, {}, 0)
        /\ UNCHANGED <<pipeline_vars, ops_vars>>

\* View Images: the multiselect of the bulk delete changed
SelectImagesForDelete ==
    \E wanted \in SUBSET {images_listed[i].id : i \in DOMAIN images_listed} :
        /\ page = "View Images"
        /\ wanted # selected_images_for_delete
        /\ ViewImagesPage("none", selected_project_name, wanted, 0)
        /\ UNCHANGED <<pipeline_vars, ops_vars>>

\* View Images: "Delete Selected Images" pressed
ClickDeleteSelectedImages ==
    /\ page = "View Images"
    /\ selected_images_for_delete # {}
    /\ ViewImagesPage("bulk_delete", selected_project_name, selected_images_for_delete, 0)
    /\ UNCHANGED <<pipeline_vars, ops_vars>>

\* View Images: "Yes, Delete Images" pressed in the confirmation on screen
ClickYesDeleteImages ==
    /\ page = "View Images"
    /\ bulk_confirm_shown
    /\ ViewImagesPage("bulk_confirm_yes", selected_project_name, selected_images_for_delete, 0)
    /\ UNCHANGED <<pipeline_vars, ops_vars>>

\* View Images: "Cancel" pressed in the confirmation on screen
ClickCancelDeleteImages ==
    /\ page = "View Images"
    /\ bulk_confirm_shown
    /\ ViewImagesPage("bulk_confirm_no", selected_project_name, selected_images_for_delete, 0)
    /\ UNCHANGED <<pipeline_vars, ops_vars>>

\* Project Management: "Delete Project <id>" pressed
ClickDeleteProject ==
    \E i \in DOMAIN projects_listed :
        /\ page = "Project Management"
        /\ confirm_delete(projects_listed[i].id) \notin session_state
        /\ ProjectManagementPage("delete", projects_listed[i].id)
        /\ UNCHANGED <<pipeline_vars, ops_vars>>

\* Project Management: "Yes, Delete Project" pressed
ClickYesDeleteProject ==
    \E i \in DOMAIN projects_listed :
        /\ page = "Project Management"
        /\ confirm_delete(projects_listed[i].id) \in session_state
        /\ ProjectManagementPage("confirm_yes", projects_listed[i].id)
        /\ UNCHANGED <<pipeline_vars, ops_vars>>

\* Project Management: "Cancel" pressed
ClickCancelDeleteProject ==
    \E i \in DOMAIN projects_listed :
        /\ page = "Project Management"
        /\ confirm_delete(projects_listed[i].id) \in session_state
        /\ ProjectManagementPage("confirm_no", projects_listed[i].id)
        /\ UNCHANGED <<pipeline_vars, ops_vars>>

\* the details view of the View Images page is on screen
DetailsOnScreen ==
    /\ page = "View Images"
    /\ images_listed # <<>>
    /\ details_shown(session_state)

\* View Images: "View Details - Image <id>" pressed
ClickViewDetails ==
    \E i \in DOMAIN images_listed :
        /\ page = "View Images"
        /\ ViewImagesPage("view", selected_project_name, selected_images_for_delete,
                          images_listed[i].id)
        /\ UNCHANGED <<pipeline_vars, ops_vars>>

\* View Images: "Close Details" pressed
ClickCloseDetails ==
    /\ DetailsOnScreen
    /\ ViewImagesPage("close_details", selected_project_name, selected_images_for_delete, 0)
    /\ UNCHANGED <<pipeline_vars, ops_vars>>

\* View Images: "Delete Image" pressed in the details view
ClickDeleteImage ==
    /\ DetailsOnScreen
    /\ confirm_delete_image(selected_image(session_state).id) \notin session_state
    /\ ViewImagesPage("delete_image", selected_project_name, selected_images_for_delete, 0)
    /\ UNCHANGED <<pipeline_vars, ops_vars>>

\* View Images: "Yes, Delete Image" pressed in the details view
ClickYesDeleteImage ==
    /\ DetailsOnScreen
    /\ confirm_delete_image(selected_image(session_state).id) \in session_state
    /\ ViewImagesPage("confirm_yes_img", selected_project_name, selected_images_for_delete, 0)
    /\ UNCHANGED <<pipeline_vars, ops_vars>>

\* View Images: "Cancel" pressed in the details view
ClickCancelDeleteImage ==
    /\ DetailsOnScreen
    /\ confirm_delete_image(selected_image(session_state).id) \in session_state
    /\ ViewImagesPage("confirm_no_img", selected_project_name, selected_images_for_delete, 0)
    /\ UNCHANGED <<pipeline_vars, ops_vars>>

\* a second passes
Tick ==
    /\ now < MaxTime
    /\ now' = now + 1
    /\ UNCHANGED <<projects, images, model_files, project_seq, image_seq>>
    /\ UNCHANGED <<pipeline_vars, session_vars, ops_vars>>

InitApp ==
    /\ project_class_names = <<>>
    /\ project_color_config = <<>>
    /\ YOLO_AVAILABLE = TRUE
    /\ upload = NoFile
    /\ InitOutputs
    /\ InitStore
    /\ InitSession
    /\ InitOps

NextApp ==
    \/ Navigate
    \/ SubmitProject
    \/ ChooseFiles
    \/ SelectUploadProject
    \/ RerunPage
    \/ SelectViewProject
    \/ SelectImagesForDelete
    \/ ClickDeleteSelectedImages
    \/ ClickYesDeleteImages
    \/ ClickCancelDeleteImages
    \/ ClickDeleteProject
    \/ ClickYesDeleteProject
    \/ ClickCancelDeleteProject
    \/ Tick

SpecApp == InitApp /\ [][NextApp]_vars

----------------------------------------------------------------------------
(* The app without the inference library: main returns after the limited   *)
(* navigation, over whatever the store held when the library went missing. *)

EmptyStore ==
    [projects |-> {}, images |-> {}, model_files |-> EmptyMap,
     project_seq |-> 0, image_seq |-> 0, lastrowid |-> 0]

\* the stores one more accepted Create Project submission leads to
StoresAfterCreate(stores) ==
    {save_project_to_db(s, name, creator, model_file, class_names_file, ts) :
        s \in stores, name \in ProjectNames, creator \in CreatorNames,
        model_file \in ModelFiles,
        class_names_file \in {c \in ClassNamesFiles : validate_class_color_file(c).is_valid},
        ts \in 0..MaxTime}

\* the stores one more upload of a photo to one of the projects leads to
StoresAfterUpload(stores) ==
    UNION {{process_valid_images(s, <<StreetFile>>, 1, q, ts) : q \in s.projects, ts \in 0..MaxTime} :
              s \in stores}

\* what earlier runs with the library can have left behind
ExistingStores ==
    LET one == StoresAfterCreate({EmptyStore})
        two == StoresAfterCreate(one)
    IN  {EmptyStore} \cup one \cup two \cup StoresAfterUpload(one \cup two)

\* the limited Project Management page that also removes the first project listed
degraded_project_management_removing(s) ==
    {[store |-> IF listed = <<>> THEN s ELSE delete_project(s, listed[1]),
      selected_project_name |-> None, projects_listed |-> listed, images_listed |-> <<>>] :
        listed \in get_all_projects(s)}

\* page == "Project Management" without the library: the projects and their
\* image counts are shown, nothing else
degraded_project_management(s) ==
    {[store |-> s,
      selected_project_name |-> None, projects_listed |-> listed, images_listed |-> <<>>] :
        listed \in get_all_projects(s)}

\* page == "View Images" without the library: the original images of the
\* selected project are shown, nothing else
degraded_view_images(s, wanted_project_name) ==
    UNION {IF listed = <<>>
           THEN {[store |-> s, selected_project_name |-> None,
                  projects_listed |-> listed, images_listed |-> <<>>]}
           ELSE LET name == selectbox(option_keys(listed), wanted_project_name)
                    selected_project_id == project_options(listed)[name]
                IN  {[store |-> s, selected_project_name |-> name,
                      projects_listed |-> listed, images_listed |-> shown] :
                        shown \in get_project_images(s, selected_project_id)} :
              listed \in get_all_projects(s)}

\* one run of main without the library
degraded_main(s, target, wanted_project_name) ==
    IF target = "View Images" THEN degraded_view_images(s, wanted_project_name)
    ELSE degraded_project_management(s)

\* the limited navigation
DegradedPages == {"View Images", "Project Management"}

\* the screen and the store after a run of main without the library
DegradedRun(target, wanted_project_name) ==
    \E shown \in degraded_main(Store, target, wanted_project_name) :
        /\ page' = target
        /\ trigger' = "none"
        /\ create_project_form' = EmptyForm
        /\ created_project_id' = 0
        /\ selected_project_name' = shown.selected_project_name
        /\ projects_listed' = shown.projects_listed
        /\ images_listed' = shown.images_listed
        /\ SetStore(shown.store)
        /\ UNCHANGED <<now, uploaded_files, selected_images_for_delete, bulk_confirm_shown,
                       session_state>>
        /\ UNCHANGED <<pipeline_vars, ops_vars>>

\* the sidebar selectbox changed
DegradedNavigate ==
    \E target \in DegradedPages \ {page} : DegradedRun(target, None)

\* View Images: another project picked in the selectbox
DegradedSelectProject ==
    \E name \in Range(option_keys(projects_listed)) :
        /\ page = "View Images"
        /\ name # selected_project_name
        /\ DegradedRun("View Images", name)

\* the script rerun from the menu, widgets untouched
DegradedRerun == DegradedRun(page, selected_project_name)

\* the first run of a session on a store earlier runs left behind
InitDegraded ==
    /\ project_class_names = <<>>
    /\ project_color_config = <<>>
    /\ YOLO_AVAILABLE = FALSE
    /\ upload = NoFile
    /\ InitOutputs
    /\ now = MaxTime
    /\ trigger = "none"
    /\ uploaded_files = <<>>
    /\ selected_images_for_delete = {}
    /\ bulk_confirm_shown = FALSE
    /\ session_state = {}
    /\ create_project_form = EmptyForm
    /\ created_project_id = 0
    /\ InitOps
    /\ page = "View Images"
    /\ \E s \in ExistingStores :
          \E shown \in degraded_main(s, "View Images", None) :
              /\ projects = shown.store.projects
              /\ images = shown.store.images
              /\ model_files = shown.store.model_files
              /\ project_seq = shown.store.project_seq
              /\ image_seq = shown.store.image_seq
              /\ selected_project_name = shown.selected_project_name
              /\ projects_listed = shown.projects_listed
              /\ images_listed = shown.images_listed

NextDegraded == DegradedNavigate \/ DegradedSelectProject \/ DegradedRerun

SpecDegraded == InitDegraded /\ [][NextDegraded]_vars

----------------------------------------------------------------------------
(* Browsing and deleting what is in the store: one session on a store that *)
(* earlier runs filled with projects and images.                           *)

\* a store whose projects share one second and one model and whose images
\* were uploaded in that second
PlainStore(s) ==
    /\ \A q \in s.projects : q.created_at = 0
    /\ \A r \in s.images : r.uploaded_at = 0
    /\ \A path \in DOMAIN s.model_files : s.model_files[path] = "weights"

\* such stores with one project, and with one or two
StoresOfOne == {s \in StoresAfterCreate({EmptyStore}) : PlainStore(s)}
StoresOfTwo == StoresOfOne \cup {s \in StoresAfterCreate(StoresOfOne) : PlainStore(s)}

\* ... and one upload, and two uploads
StoresOfOneImage == {s \in StoresAfterUpload(StoresOfTwo) : PlainStore(s)}
StoresOfTwoImages == {s \in StoresAfterUpload(StoresOfOneImage) : PlainStore(s)}

\* the stores with up to two projects and up to two images
DeleteStores == StoresOfTwo \cup StoresOfOneImage \cup StoresOfTwoImages

InitDelete ==
    /\ project_class_names = <<>>
    /\ project_color_config = <<>>
    /\ YOLO_AVAILABLE = TRUE
    /\ upload = NoFile
    /\ InitOutputs
    /\ InitSession
    /\ InitOps
    /\ now = 0
    /\ \E s \in DeleteStores :
          /\ projects = s.projects
          /\ images = s.images
          /\ model_files = s.model_files
          /\ project_seq = s.project_seq
          /\ image_seq = s.image_seq

NextDelete ==
    \/ Navigate
    \/ SelectViewProject
    \/ ClickViewDetails
    \/ ClickCloseDetails
    \/ ClickDeleteImage
    \/ ClickYesDeleteImage
    \/ ClickCancelDeleteImage
    \/ ClickDeleteProject
    \/ ClickYesDeleteProject
    \/ ClickCancelDeleteProject

SpecDelete == InitDelete /\ [][NextDelete]_vars

----------------------------------------------------------------------------
(* Sessions side by side. Every session runs its own script thread on the  *)
(* shared sqlite file and models directory. A handler is cut where another *)
(* session's statement, or the end of the server process, can fall: after  *)
(* the model file is written and before the project row is committed,      *)
(* after the delete is committed and before the model file is removed, and *)
(* before each save_image_to_db of an upload run. A statement with its     *)
(* commit is one step: sqlite serialises writers.                          *)

\* Create Project submitted by one session: the form is checked and the model
\* file written
OpsWriteModelFile(session) ==
    \E form \in to_create :
        /\ in_progress[session].op = "idle"
        /\ validate_class_color_file(form.class_names_file).is_valid
        /\ SetStore(write_model_file(Store, form.project_name, form.creator_name,
                                     form.model_file))
        /\ in_progress' = [in_progress EXCEPT ![session] =
                              [Idle EXCEPT !.op = "create", !.form = form]]
        /\ to_create' = to_create \ {form}
        /\ UNCHANGED <<now, pipeline_vars, session_vars>>

\* ... and its row inserted and committed
OpsInsertProject(session) ==
    LET form == in_progress[session].form
    IN  /\ in_progress[session].op = "create"
        /\ SetStore(insert_project(Store, form.project_name, form.creator_name,
                                   form.class_names_file, now))
        /\ in_progress' = [in_progress EXCEPT ![session] = Idle]
        /\ UNCHANGED <<to_create, now, pipeline_vars, session_vars>>

\* "Yes, Delete Project" pressed in one session: both DELETE statements committed
OpsDeleteProjectRows(session) ==
    \E project \in projects :
        /\ in_progress[session].op = "idle"
        /\ SetStore(delete_project_rows(Store, project))
        /\ in_progress' = [in_progress EXCEPT ![session] =
                              [Idle EXCEPT !.op = "delete", !.project = project]]
        /\ UNCHANGED <<to_create, now, pipeline_vars, session_vars>>

\* ... and the model file removed
OpsRemoveModelFile(session) ==
    /\ in_progress[session].op = "delete"
    /\ SetStore(remove_model_file(Store, in_progress[session].project))
    /\ in_progress' = [in_progress EXCEPT ![session] = Idle]
    /\ UNCHANGED <<to_create, now, pipeline_vars, session_vars>>

\* Upload Images run by one session: the project is taken from the listing of
\* this run and the files are validated
OpsSelectAndValidate(session) ==
    \E project \in projects, files \in Batches :
        LET valid_images == SelectSeq(files, LAMBDA f : validate_image_file(f).is_valid)
        IN  /\ in_progress[session].op = "idle"
            /\ valid_images # <<>>
            /\ in_progress' = [in_progress EXCEPT ![session] =
                                  [Idle EXCEPT !.op = "upload", !.project = project,
                                               !.files = valid_images]]
            /\ UNCHANGED <<to_create, store_vars, pipeline_vars, session_vars>>

\* ... and the next valid image annotated and its record saved
OpsSaveImage(session) ==
    LET run == in_progress[session]
    IN  /\ run.op = "upload"
        /\ image_seq < MaxImages
        /\ SetStore(process_valid_images(Store, <<Head(run.files)>>, 1, run.project, now))
        /\ in_progress' = [in_progress EXCEPT ![session] =
                              IF Tail(run.files) = <<>> THEN Idle
                              ELSE [run EXCEPT !.files = Tail(@)]]
        /\ UNCHANGED <<to_create, now, pipeline_vars, session_vars>>

\* the server process ends in the middle of a handler and is started again
Crash ==
    /\ \E session \in Sessions : in_progress[session].op # "idle"
    /\ in_progress' = [session \in Sessions |-> Idle]
    /\ UNCHANGED <<to_create, store_vars, pipeline_vars, session_vars>>

NextOps ==
    \/ \E session \in Sessions :
          \/ OpsWriteModelFile(session)
          \/ OpsInsertProject(session)
          \/ OpsDeleteProjectRows(session)
          \/ OpsRemoveModelFile(session)
          \/ OpsSelectAndValidate(session)
          \/ OpsSaveImage(session)
    \/ Crash

SpecOps == InitApp /\ [][NextOps]_vars

----------------------------------------------------------------------------
(* The legend as the specification reads it (section 4.1 and 6).           *)

\* the non-blank, non-comment lines of a legend text, in file order
LegendLines(content) ==
    SelectSeq(split(content, "\n"),
              LAMBDA l : strip(l) # <<>> /\ Head(strip(l)) # "#")

NameOfLine(l) ==
    LET t == strip(l)
        colons == {i \in 1..Len(t) : t[i] = ":"}
    IN  IF colons # {} THEN strip(SubSeq(t, 1, Min(colons) - 1)) ELSE t
ColorOfLine(l) ==
    LET t == strip(l)
        colons == {i \in 1..Len(t) : t[i] = ":"}
    IN  IF colons # {} THEN strip(SubSeq(t, Min(colons) + 1, Len(t))) ELSE None

LegendEntries(content) ==
    LET ls == LegendLines(content)
    IN  [i \in 1..Len(ls) |-> [name |-> NameOfLine(ls[i]), color |-> ColorOfLine(ls[i])]]

E == LegendEntries(project_class_names)

NamesDistinct(entries) ==
    \A i, j \in 1..Len(entries) : entries[i].name = entries[j].name => i = j

\* the colors the legend gives a class name explicitly
ExplicitColors(n) == {E[i].color : i \in {j \in 1..Len(E) : E[j].name = n /\ E[j].color # None}}

\* the palette in its declared order (section 4.2)
DeclaredPalette ==
    << <<"r","e","d">>, <<"b","l","u","e">>, <<"g","r","e","e","n">>, <<"y","e","l","l","o","w">>, <<"p","u","r","p","l","e">>, <<"o","r","a","n","g","e">>, <<"c","y","a","n">>, <<"m","a","g","e","n","t","a">>, <<"l","i","m","e">>,
       <<"p","i","n","k">>, <<"b","r","o","w","n">>, <<"g","r","a","y">>, <<"n","a","v","y">>, <<"o","l","i","v","e">>, <<"t","e","a","l">>, <<"m","a","r","o","o","n">>, <<"f","u","c","h","s","i","a">>, <<"a","q","u","a">> >>

PaletteAt(k) == DeclaredPalette[(k % 18) + 1]

InPalette(c) == \E i \in 1..Len(DeclaredPalette) : DeclaredPalette[i] = lower(c)

\* the legacy color configuration names the class
LegacyHas(n) == n \in DOMAIN parse_color_config(project_color_config)

\* C1: for a legend with N non-blank, non-comment lines and no duplicate class
\* names, the parser returns exactly N class names, the i-th being the name
\* of the i-th such line (the trimmed text before the first ':' or the whole
\* trimmed line).
C1_ParserNamesInFileOrder ==
    (op = "parse" /\ NamesDistinct(E)) =>
        /\ Len(parsed.class_names) = Len(E)
        /\ \A i \in 1..Len(E) : parsed.class_names[i] = E[i].name

\* C1 witness: a parsed legend with a comment line, a colored entry and a bare entry
C1_Witness ==
    /\ op = "parse"
    /\ NamesDistinct(E)
    /\ Len(parsed.class_names) >= 2
    /\ Len(split(project_class_names, "\n")) > Len(E)
    /\ \E i, j \in 1..Len(E) : E[i].color # None /\ E[j].color = None

\* C2: the parser's color mapping has a key for a class name only if some
\* line of the legend gives that class an explicit color.
C2_ColorMapOnlyExplicit ==
    op = "parse" =>
        \A n \in DOMAIN parsed.color_map : ExplicitColors(n) # {}

C4_LegacyColorBeforePalette ==
    op = "process" =>
        \A i \in 1..Len(detection_data) :
            (/\ ExplicitColors(detection_data[i].class_name) = {}
             /\ LegacyHas(detection_data[i].class_name)) =>
                detection_data[i].color =
                    parse_color_config(project_color_config)[detection_data[i].class_name]

\* C5: a detection with class index k whose class name is a bare name of the
\* legend (names pairwise distinct) and has no legacy color is recorded with
\* palette[k mod 18], also when comment or blank lines precede the class.
C5_BareNamePaletteByClassIndex ==
    (op = "process" /\ NamesDistinct(E)) =>
        \A i \in 1..Len(detection_data) :
            (/\ \E j \in 1..Len(E) : E[j].name = detection_data[i].class_name
             /\ ExplicitColors(detection_data[i].class_name) = {}
             /\ ~LegacyHas(detection_data[i].class_name)) =>
                detection_data[i].color = PaletteAt(boxes[i].cls)

\* C6: with a legend without class entries and no legacy colors, a detection
\* with class index k is recorded with palette[k mod 18] of the declared
\* 18-color palette, whose entries are pairwise distinct (0..17 one-to-one,
\* 18 wraps to red).
C6_EmptyLegendPalette ==
    (op = "process" /\ Len(E) = 0 /\ LegendLines(project_color_config) = <<>>) =>
        /\ Len(DeclaredPalette) = 18
        /\ \A a, b \in 1..18 : DeclaredPalette[a] = DeclaredPalette[b] => a = b
        /\ \A i \in 1..Len(detection_data) :
               detection_data[i].color = PaletteAt(boxes[i].cls)

\* C6 witness: class index 18 recorded with the first palette color
C6_Witness ==
    /\ op = "process"
    /\ Len(E) = 0
    /\ Len(detection_data) = 1
    /\ boxes[1].cls = 18
    /\ detection_data[1].color = <<"r","e","d">>

----------------------------------------------------------------------------
(* Legend validation as the specification reads it (section 4.3).          *)

\* the name with every character removed that is not a word character,
\* whitespace or hyphen
StrippedName(n) == SelectSeq(n, LAMBDA c : IsWord(c) \/ IsSpace(c) \/ c = "-")

\* name rule, length taken after the removal
NameAcceptedStrippedLength(n) ==
    StrippedName(n) # <<>> /\ Len(StrippedName(n)) >= 1 /\ Len(StrippedName(n)) <= 100

\* name rule, length taken on the name as written in the legend
NameAccepted(n) == StrippedName(n) # <<>> /\ Len(n) >= 1 /\ Len(n) <= 100

ColorAccepted(c) == c = None \/ InPalette(c)

EntryAccepted(e) == NameAccepted(e.name) /\ ColorAccepted(e.color)

Rejected == {i \in 1..Len(E) : ~EntryAccepted(E[i])}

\* the first entry of the legend that is not accepted
FirstRejected == E[Min(Rejected)]

\* the class names that two or more entries share
DuplicatedNames ==
    {StrippedName(E[i].name) : i \in {a \in 1..Len(E) :
        \E b \in 1..Len(E) : a # b /\ StrippedName(E[a].name) = StrippedName(E[b].name)}}

Messages == Range(validation.errors)

IsColorMessage(m) == m.msg = "Invalid color" \/ m.loc = "color"

IsNameMessage(m) ==
    \/ m.loc = "class_name"
    \/ m.msg \in {"Class name cannot be empty", "Class name must contain valid characters"}

\* an accepted legend holds every color in lowercase; a color outside the
\* palette fails the validation; color messages come from such a color only
C7_ColorRule ==
    /\ validation.is_valid =>
           /\ Len(validation.config) = Len(E)
           /\ \A i \in 1..Len(E) :
                  E[i].color # None =>
                      /\ InPalette(E[i].color)
                      /\ validation.config[i].color = lower(E[i].color)
    /\ (\E i \in 1..Len(E) : ~ColorAccepted(E[i].color)) => ~validation.is_valid
    /\ \A m \in Messages :
           IsColorMessage(m) => (Rejected # {} /\ ~ColorAccepted(FirstRejected.color))

\* the message names the color of the first rejected entry
NamesOffendingColor ==
    \E m \in Messages : m.msg = "Invalid color" /\ m.arg = FirstRejected.color

\* C7 as stated: every color outside the palette is named by the message.
C7_EveryInvalidColorNamed ==
    op = "validate" =>
        /\ C7_ColorRule
        /\ (Rejected # {} /\ ~ColorAccepted(FirstRejected.color)) => NamesOffendingColor

\* C7 amended: a color is accepted iff it is, case-insensitively, one of the
\* 18 palette colors, and is then held in lowercase; a color outside the
\* palette of at most 20 characters fails with a message naming it, a longer
\* one fails with the length message of the color field, which does not
\* name it.
C7_ColorValidation ==
    op = "validate" =>
        /\ C7_ColorRule
        /\ (Rejected # {} /\ ~ColorAccepted(FirstRejected.color)) =>
               IF Len(FirstRejected.color) <= 20
               THEN NamesOffendingColor
               ELSE /\ ~NamesOffendingColor
                    /\ \E m \in Messages : m.loc = "color" /\ m.msg = "too long"

\* C7 witness: an accepted legend whose color was written in upper case
C7_Witness ==
    /\ op = "validate"
    /\ validation.is_valid
    /\ \E i \in 1..Len(E) :
           /\ E[i].color = <<"R","E","D">>
           /\ validation.config[i].color = <<"r","e","d">>

\* the uniqueness rule on a legend of individually accepted entries
UniquenessRule ==
    /\ ~validation.is_valid <=> DuplicatedNames # {}
    /\ DuplicatedNames # {} =>
           /\ Len(validation.errors) = 1
           /\ validation.errors[1].msg = "Duplicate class names found"
           /\ validation.errors[1].names = DuplicatedNames

\* C8 as stated: for every legend whose entries are individually valid, the
\* validation fails iff two entries share a class name.
C8_FailsIffDuplicate ==
    (op = "validate" /\ Rejected = {}) => UniquenessRule

\* C8 amended: for every legend of 1 to 1000 individually valid entries, the
\* validation fails iff two entries share a class name, and the message then
\* lists every duplicated name once; a legend without any entry fails too,
\* with "No valid class entries found in file".
C8_UniqueClassNames ==
    /\ (op = "validate" /\ Rejected = {} /\ Len(E) >= 1 /\ Len(E) <= 1000) => UniquenessRule
    /\ (op = "validate" /\ Len(E) = 0) =>
           /\ ~validation.is_valid
           /\ validation.message = "No valid class entries found in file"

\* C8 witness: two different names, each listed twice, both reported
C8_Witness ==
    /\ op = "validate"
    /\ Rejected = {}
    /\ Cardinality(DuplicatedNames) = 2
    /\ ~validation.is_valid
    /\ validation.errors[1].names = DuplicatedNames

\* the class-name rule under a given acceptance predicate
NameRule(Accepted(_)) ==
    /\ validation.is_valid =>
           /\ Len(validation.config) = Len(E)
           /\ \A i \in 1..Len(E) :
                  /\ Accepted(E[i].name)
                  /\ validation.config[i].class_name = StrippedName(E[i].name)
    /\ (\E i \in 1..Len(E) : ~Accepted(E[i].name)) => ~validation.is_valid
    /\ (\E m \in Messages : IsNameMessage(m)) <=>
           (Rejected # {} /\ ~Accepted(FirstRejected.name))

\* C9 as stated: a class name is accepted iff, after the removal, it is
\* non-empty and its length is between 1 and 100.
C9_LengthAfterRemoval ==
    op = "validate" => NameRule(NameAcceptedStrippedLength)

\* C9 amended: a class name is accepted iff it is non-empty after the removal
\* and the name as written in the legend (before the removal) has 1 to 100
\* characters; the accepted entry holds the name after the removal.
C9_ClassNameValidation ==
    op = "validate" => NameRule(NameAccepted)

\* C9 witness: an accepted legend with a name that lost a character
C9_Witness ==
    /\ op = "validate"
    /\ validation.is_valid
    /\ \E i \in 1..Len(E) :
           /\ StrippedName(E[i].name) # E[i].name
           /\ validation.config[i].class_name = StrippedName(E[i].name)

\* C10: the failure message holds one message per violated rule (one for
\* every entry with a disallowed color, one for the duplicated names), and a
\* success returns the parsed, normalized configuration.
C10_OneMessagePerViolatedRule ==
    op = "validate" =>
        /\ \A i \in 1..Len(E) :
               (~ColorAccepted(E[i].color) /\ Len(E[i].color) <= 20) =>
                   \E m \in Messages : m.msg = "Invalid color" /\ m.arg = E[i].color
        /\ DuplicatedNames # {} =>
               \E m \in Messages :
                   m.msg = "Duplicate class names found" /\ m.names = DuplicatedNames
        /\ validation.is_valid =>
               validation.config =
                   [i \in 1..Len(E) |->
                       [class_name |-> StrippedName(E[i].name),
                        color |-> IF E[i].color = None THEN None ELSE lower(E[i].color)]]

----------------------------------------------------------------------------
(* Detection records and the annotated image of one upload.                *)

\* the run went through the detection loop: no st.error was shown
Annotated == op = "process" /\ process_error = ""

C20_ZeroDetectionsIdentity ==
    (op = "process" /\ boxes = <<>>) =>
        /\ processed_image.pixels = image.pixels
        /\ processed_image.drawn = image.drawn
        /\ detection_data = <<>>

\* a run through the detection loop with nothing to draw
C20_Witness ==
    /\ Annotated
    /\ YOLO_AVAILABLE
    /\ boxes = <<>>
    /\ processed_image = UploadedImage

----------------------------------------------------------------------------
(* The image rules as the specification reads them (section 4.3).          *)

\* the extension of the candidate, compared without regard to case
ExtensionAllowed(f) ==
    lower(splitext(f.name)) \in { <<".","j","p","g">>, <<".","j","p","e","g">>, <<".","p","n","g">>, <<".","b","m","p">> }

NameClean(f) ==
    /\ f.name # <<>>
    /\ \A i \in 1..Len(f.name) :
           f.name[i] \notin {"<", ">", ":", "\"", "|", "?", "*", "\\", "/"}

SizeAllowed(f) == 0 < f.size /\ f.size <= 50 * 1024 * 1024

DimensionsAllowed(f) ==
    /\ 0 < f.width /\ f.width <= 10000
    /\ 0 < f.height /\ f.height <= 10000

FiveRules(f) ==
    NameClean(f) /\ SizeAllowed(f) /\ ExtensionAllowed(f) /\ DimensionsAllowed(f)

ImageValidated == op = "validate_image"

\* C11 as stated: a decodable candidate is valid exactly when its name is
\* non-empty and free of the nine characters, its size is in 1..50 MiB, its
\* extension is one of the four and its width and height are in 1..10000.
C11_ValidIffFiveRules ==
    (ImageValidated /\ upload.decodable) =>
        (image_validation.is_valid <=> FiveRules(upload))

\* C11: a decodable candidate is valid exactly when its name is non-empty,
\* at most 255 characters long and free of the nine characters, its size is
\* in 1..50 MiB, its extension is one of .jpg/.jpeg/.png/.bmp whatever its
\* case, and its width and height are each in 1..10000; the limits
\* themselves are accepted, one beyond each is rejected.
C11_ImageRules ==
    (ImageValidated /\ upload.decodable) =>
        (image_validation.is_valid <=> (FiveRules(upload) /\ Len(upload.name) <= 255))

\* a file accepted with every limit reached at once
C11_Witness ==
    /\ ImageValidated
    /\ image_validation.is_valid
    /\ upload.size = 50 * 1024 * 1024
    /\ upload.width = 10000
    /\ upload.height = 10000
    /\ Len(upload.name) = 255

\* the fields of the candidate that break a rule of its model
ViolatedFields(f) ==
    {field \in {"file_name", "file_size", "file_type", "image_width", "image_height"} :
        \/ field = "file_name"
              /\ ~(NameClean(f) /\ strip(f.name) # <<>> /\ Len(f.name) <= 255)
        \/ field = "file_size" /\ ~SizeAllowed(f)
        \/ field = "file_type" /\ ~ExtensionAllowed(f)
        \/ field = "image_width" /\ ~(0 < f.width /\ f.width <= 10000)
        \/ field = "image_height" /\ ~(0 < f.height /\ f.height <= 10000)}

\* C12: the reason "Invalid image format" is given only to files that cannot
\* be decoded; a decodable file that breaks a size, dimension, extension or
\* name rule is rejected with "Validation errors" naming the violated
\* field, never with "Invalid image format".
C12_InvalidFormatOnlyUndecodable ==
    ImageValidated =>
        /\ image_validation.message = "Invalid image format" => ~upload.decodable
        /\ (upload.decodable /\ ~image_validation.is_valid) =>
              /\ image_validation.message = "Validation errors"
              /\ {image_validation.errors[i].loc : i \in 1..Len(image_validation.errors)}
                     = ViolatedFields(upload)

----------------------------------------------------------------------------
(* Image records and projects as the specification reads them (sections 3, *)
(* 4.5 and 5).                                                             *)

\* the file passes the image validator
PassesValidation(f) == f.decodable /\ FiveRules(f) /\ Len(f.name) <= 255

\* the step ran the script of the Upload Images page
UploadPageRun == page' = "Upload Images" /\ now' = now

\* the image rows the step inserted for the picture of file f
NewRecordsOf(f) == {r \in images' \ images : r.original_image.pixels = f.pixels}

\* C13: in a batch of uploaded files, a file that fails validation gets no
\* image record and does not keep its valid siblings from being processed
\* and stored: the files given an image record by a run of the batch are
\* exactly the files that passed validation, one record each.
C13_BatchStoresExactlyValidFiles ==
    [][UploadPageRun =>
          /\ \A i \in DOMAIN uploaded_files' :
                Cardinality(NewRecordsOf(uploaded_files'[i])) =
                    IF PassesValidation(uploaded_files'[i]) THEN 1 ELSE 0
          /\ \A r \in images' \ images :
                \E i \in DOMAIN uploaded_files' :
                    r.original_image.pixels = uploaded_files'[i].pixels]_vars

\* a batch whose first file is rejected and whose second file is stored
C13_Witness ==
    /\ page = "Upload Images"
    /\ Len(uploaded_files) = 2
    /\ ~PassesValidation(uploaded_files[1])
    /\ PassesValidation(uploaded_files[2])
    /\ \E r \in images : r.original_image.pixels = uploaded_files[2].pixels
    /\ ~\E r \in images : r.original_image.pixels = uploaded_files[1].pixels

\* C14: every uploaded file gets exactly one image record, whatever is done
\* on the Upload Images page afterwards: a run of the page script creates no
\* further record for a file that was in the uploader before the run and
\* is still there.
C14_OneRecordPerUploadedFile ==
    [][\A i \in DOMAIN uploaded_files :
          (\E j \in DOMAIN uploaded_files' : uploaded_files'[j] = uploaded_files[i])
              => NewRecordsOf(uploaded_files[i]) = {}]_vars

\* the project of an image row can load its model
ModelLoadsFor(project_id) ==
    \E q \in projects :
        /\ q.id = project_id
        /\ q.model_path \in DOMAIN model_files
        /\ model_files[q.model_path] = "weights"

\* C15: an image record is created only after its annotation succeeded: no
\* record is stored for a file whose process_image_with_yolo call took the
\* error path (here: the model of the project does not load).
C15_RecordOnlyAfterAnnotation ==
    [][\A r \in images' \ images : ModelLoadsFor(r.project_id)]_vars

\* C16: bulk delete removes exactly the selection: with the set S selected,
\* a click on "Delete Selected Images" followed by a click on "Yes, Delete
\* Images" (two successive runs, each button True only in the run its own
\* click started) removes every record of S and no record outside S.
C16_BulkDeleteRemovesSelection ==
    [][(trigger = "bulk_delete" /\ trigger' = "bulk_confirm_yes") =>
          images' = {r \in images : r.id \notin selected_images_for_delete}]_vars

\* the store a step leaves behind
StoreAfter ==
    [projects |-> projects', images |-> images', model_files |-> model_files',
     project_seq |-> project_seq', image_seq |-> image_seq']

\* the step is the run of "Yes, Delete Project" for project q
DeletesProject(q) ==
    /\ trigger' = "confirm_yes"
    /\ <<"confirm_delete", q.id>> \in session_state
    /\ <<"confirm_delete", q.id>> \notin session_state'

\* C17: deleting project P removes the row of P and every image record of
\* P, leaves every other project row and every image record of another
\* project unchanged, succeeds whether or not the model file of P still
\* exists, and the same delete run again on the result changes nothing.
C17_DeleteProjectCascades ==
    [][\A q \in projects :
          DeletesProject(q) =>
              /\ projects' = projects \ {q}
              /\ images' = {r \in images : r.project_id # q.id}
              /\ project_seq' = project_seq /\ image_seq' = image_seq
              /\ delete_project(StoreAfter, q) = StoreAfter]_vars

\* one of two projects was deleted together with its image; the image of the
\* other project is still stored
C17_Witness ==
    /\ trigger = "confirm_yes"
    /\ project_seq = 2
    /\ image_seq = 2
    /\ Cardinality(projects) = 1
    /\ Cardinality(images) = 1
    /\ \A r \in images : \E q \in projects : r.project_id = q.id

\* the rows on screen come from a listing of the tables as they are
ProjectsOnScreen == page \in {"Upload Images", "View Images", "Project Management"}
ImagesOnScreen == page = "View Images" /\ projects # {}

\* the project whose images the View Images page shows
ViewedProjects == {q \in projects : option_label(q) = selected_project_name}

ListsExactly(listed, rows) ==
    /\ Len(listed) = Cardinality(rows)
    /\ {listed[i] : i \in DOMAIN listed} = rows

\* C18 as stated: both listings are exact and strictly newest-first by
\* creation: a record created later (a larger id) never comes after a
\* record created earlier.
C18_LaterCreatedNeverAfter ==
    /\ ProjectsOnScreen =>
          /\ ListsExactly(projects_listed, projects)
          /\ \A i, j \in DOMAIN projects_listed :
                i < j => projects_listed[i].id > projects_listed[j].id
    /\ ImagesOnScreen =>
          /\ \E q \in ViewedProjects :
                ListsExactly(images_listed, {r \in images : r.project_id = q.id})
          /\ \A i, j \in DOMAIN images_listed :
                i < j => images_listed[i].id > images_listed[j].id

\* C18: after any sequence of creates and deletes get_all_projects returns
\* every project exactly once, newest-first by creation timestamp, and
\* get_project_images(p) returns exactly the records of p, newest-first by
\* upload timestamp: a record with a later timestamp never comes after a
\* record with an earlier one. Timestamps count whole seconds; records of
\* the same second come in any order.
C18_ListingsNewestFirst ==
    /\ ProjectsOnScreen =>
          /\ ListsExactly(projects_listed, projects)
          /\ \A i, j \in DOMAIN projects_listed :
                i < j => projects_listed[i].created_at >= projects_listed[j].created_at
    /\ ImagesOnScreen =>
          /\ \E q \in ViewedProjects :
                ListsExactly(images_listed, {r \in images : r.project_id = q.id})
          /\ \A i, j \in DOMAIN images_listed :
                i < j => images_listed[i].uploaded_at >= images_listed[j].uploaded_at

\* two projects and two images of different seconds on screen, newest first,
\* after a project was created, deleted and created again
C18_Witness ==
    /\ page = "View Images"
    /\ Len(images_listed) = 2
    /\ images_listed[1].uploaded_at > images_listed[2].uploaded_at
    /\ Len(projects_listed) = 1
    /\ model_files # EmptyMap

----------------------------------------------------------------------------
(* The input image of an annotation.                                       *)

\* C21: annotation works on a copy: for every input image and every number
\* of detections, process_image_with_yolo draws only on a copy and leaves
\* the input image object unmodified, so the bytes encoded from it as
\* original_image are the encoding of the un-annotated input, and they differ
\* from the bytes encoded from processed_image whenever at least one box was
\* drawn.
C21_AnnotationOnCopy ==
    op = "process" =>
        /\ image = UploadedImage
        /\ image_to_bytes(image) = image_to_bytes(UploadedImage)
        /\ detection_data # <<>> => image_to_bytes(image) # image_to_bytes(processed_image)

\* two boxes drawn on the returned image, none on the input
C21_Witness ==
    /\ op = "process"
    /\ Len(detection_data) = 2
    /\ Len(processed_image.drawn) = 6
    /\ image.drawn = <<>>

----------------------------------------------------------------------------
(* The app without the inference library.                                  *)

\* C22: read-only degraded mode: when the inference library is unavailable
\* (YOLO_AVAILABLE is false), no user interaction creates, modifies or
\* deletes a project row, an image row or a model artifact file, and every
\* interaction ends on one of the two listing pages with no button pressed.
C22_DegradedReadOnly ==
    [][~YOLO_AVAILABLE =>
          /\ projects' = projects
          /\ images' = images
          /\ model_files' = model_files
          /\ project_seq' = project_seq
          /\ image_seq' = image_seq
          /\ page' \in {"View Images", "Project Management"}
          /\ trigger' = "none"]_vars

\* the Project Management listing of a store with two projects and an image,
\* reached by navigation without the library
C22_Witness ==
    /\ ~YOLO_AVAILABLE
    /\ page = "Project Management"
    /\ Len(projects_listed) = 2
    /\ images # {}
    /\ model_files # EmptyMap

----------------------------------------------------------------------------
(* Project creation.                                                       *)

\* the step is a run of the Create Project page started by its submit button
CreateProjectRun == trigger' = "submit" /\ now' = now

\* name, creator, model file and legend file are all present
FormComplete(f) ==
    /\ f.project_name # <<>>
    /\ f.creator_name # <<>>
    /\ f.model_file # "None"
    /\ f.class_names_file # None

\* the form is complete and its legend passes the legend validator
FormAccepted(f) ==
    FormComplete(f) /\ validate_class_color_file(f.class_names_file).is_valid

C24_ValidationGate ==
    [][/\ (CreateProjectRun /\ ~FormAccepted(create_project_form')) =>
             /\ projects' = projects
             /\ model_files' = model_files
       /\ (\E r \in projects' : r \notin projects) =>
             CreateProjectRun /\ FormAccepted(create_project_form')
       /\ (\E path \in DOMAIN model_files' :
              path \notin DOMAIN model_files \/ model_files'[path] # model_files[path]) =>
             CreateProjectRun /\ FormAccepted(create_project_form')
       /\ \A r \in projects' \ projects : validate_class_color_file(r.class_names).is_valid]_vars

\* a complete form with a legend the validator rejects was submitted next to
\* a stored project, and nothing was created
C24_Witness ==
    /\ trigger = "submit"
    /\ FormComplete(create_project_form)
    /\ ~validate_class_color_file(create_project_form.class_names_file).is_valid
    /\ created_project_id = 0
    /\ Cardinality(projects) = 1
    /\ DOMAIN model_files = {q.model_path : q \in projects}

----------------------------------------------------------------------------
(* Artifact files and project rows.                                        *)

\* the artifact file of a project row is there
ArtifactPresent(q, files) == q.model_path \in DOMAIN files

\* C25: ordering of file and row steps, for projects with pairwise distinct
\* name and creator: create project writes the artifact file before the
\* project row is committed; delete project commits the deletion of the
\* image rows and the project row, in one commit, before it removes the
\* artifact file; therefore, whatever step the server process ends after,
\* there may be an artifact file without a row but never a committed project
\* row whose artifact file is absent.
C25_NoRowWithoutArtifact ==
    [][/\ \A r \in projects' \ projects : ArtifactPresent(r, model_files)
       /\ \A q \in projects \ projects' :
             \A r \in images' : r.project_id # q.id
       /\ \A session \in Sessions :
             (in_progress[session].op = "delete" /\ in_progress'[session].op = "idle"
              /\ model_files' # model_files) =>
                 \A q \in projects : q.id # in_progress[session].project.id
       /\ \A q \in projects' : ArtifactPresent(q, model_files')]_vars

\* C26: artifact availability: after any crash-free sequence of create-project
\* and delete-project actions, sequences that create several projects with
\* the same name and creator included, the artifact file at the model_path
\* of every project still in the store exists.
C26_ArtifactAvailable ==
    \A q \in projects : ArtifactPresent(q, model_files)

----------------------------------------------------------------------------
(* The project selector of the Upload Images page.                         *)

\* the ids the selector of a listing can yield
SelectableIds(listed) ==
    {project_options(listed)[name] : name \in Range(option_keys(listed))}

\* C27: every stored project is selectable and uploads go to the selected
\* project: in every run of the Upload Images page, every project P in the
\* store, projects that share name and creator with another project
\* included, is the project of one of the choices of the selector, and the
\* image records the run creates are those of an upload processed with the
\* legend and model path of the chosen project, with its id as reference.
C27_EveryProjectSelectable ==
    [][UploadPageRun =>
          /\ \A P \in projects' : P.id \in SelectableIds(projects_listed')
          /\ projects' # {} =>
                \E P \in projects' :
                    /\ option_label(P) = selected_project_name'
                    /\ images' =
                           process_valid_images(Store,
                               SelectSeq(uploaded_files', PassesValidation), 1, P, now).images]_vars

\* the confirm flags of projects and of images in st.session_state
ConfirmFlags(state) ==
    {f \in state : f[1] \in {"confirm_delete", "confirm_delete_image"}}

C29_ImagesReferToProjects ==
    \A r \in images : \E q \in projects : q.id = r.project_id

\* C30: when validate_class_color_file accepts the legend, the class names
\* parse_unified_class_config reads from the same text are the class names
\* of the validated entries, as many and in the same order, and the color
\* the parser gives a class whose entry names a color is the validated color
C30_ValidatorParserAgree ==
    (op = "validate" /\ validation.is_valid) =>
        LET config == validation.config
            read == parse_unified_class_config(project_class_names)
        IN  /\ Len(read.class_names) = Len(config)
            /\ \A i \in 1..Len(config) :
                  /\ i <= Len(read.class_names)
                  /\ read.class_names[i] = config[i].class_name
                  /\ config[i].color # None =>
                        read.color_map[read.class_names[i]] = config[i].color

====
